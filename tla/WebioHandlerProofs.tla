-------------------------- MODULE WebioHandlerProofs --------------------------
(***************************************************************************)
(* Proofs about WebioServer, for every number of slots, every set of       *)
(* connections and requests and every bound on units: the session list,    *)
(* and what every handler does to the working set of a session.  The       *)
(* result is well-formed, its own resources are in use and its own, and    *)
(* those of the other sessions are as they were.  Then how far each takes  *)
(* the reply: what of the header was sent and how often, what text waits,  *)
(* which files are open, and which slots the tables lose.                  *)
(***************************************************************************)
EXTENDS WebioServer, SequenceTheorems, FiniteSetTheorems, WellFoundedInduction, TLAPS

----------------------------------------------------------------------------
(* Slots and lists *)

\* A set of natural numbers that is not empty has a least element.
LEMMA LeastElement ==
    ASSUME NEW S, S \subseteq Nat, S # {}
    PROVE  \E x \in S : \A y \in S : x <= y
<1>1. PICK x \in S : \A y \in S : <<y, x>> \notin OpToRel(<, Nat)
  BY NatLessThanWellFounded, WFMin, Zenon
<1>2. \A y \in S : ~(y < x)
  BY <1>1, Zenon DEF OpToRel
<1>3. QED
  BY <1>2

\* The first slot of a table that is not full is one of its free slots.
LEMMA FirstSlotIn ==
    ASSUME NEW S, S \subseteq Nat, S # {}
    PROVE  FirstSlot(S) \in S
BY LeastElement, Zenon DEF FirstSlot

Distinct(q) == \A i, j \in 1 .. Len(q) : q[i] = q[j] => i = j

\* r is the list q without its k-th element, in any order.
Without(q, k, r) ==
    /\ Distinct(r)
    /\ Len(r) = Len(q) - 1
    /\ \A i \in 1 .. Len(q) : i # k => \E j \in 1 .. Len(q) - 1 : r[j] = q[i]
    /\ \A j \in 1 .. Len(q) - 1 : \E i \in 1 .. Len(q) : i # k /\ r[j] = q[i]

\* Unlinking an element of a list without repetition removes it and nothing else.
LEMMA UnlinkProperties ==
    ASSUME NEW S, NEW q \in Seq(S), Distinct(q), NEW k \in 1 .. Len(q)
    PROVE  Unlink(q, q[k]) \in Seq(S) /\ Without(q, k, Unlink(q, q[k]))
<1> DEFINE u == [j \in 1 .. Len(q) - 1 |-> IF j < k THEN q[j] ELSE q[j + 1]]
<1>1. (CHOOSE i \in 1 .. Len(q) : q[i] = q[k]) = k
  BY DEF Distinct
<1>2. Unlink(q, q[k]) = u
  BY <1>1, Zenon DEF Unlink
<1>3. Len(q) \in Nat /\ Len(q) - 1 \in Nat /\ \A i \in 1 .. Len(q) : q[i] \in S
  BY LenProperties
<1>4. \A j \in 1 .. Len(q) - 1 : u[j] \in S
  BY <1>3
<1>5. u \in Seq(S)
  BY <1>3, <1>4
<1>6. Len(u) = Len(q) - 1
  BY <1>3
<1>7. Distinct(u)
  BY <1>3, <1>6 DEF Distinct
<1>8. ASSUME NEW i \in 1 .. Len(q), i # k
      PROVE  \E j \in 1 .. Len(q) - 1 : u[j] = q[i]
  <2>1. CASE i < k
    BY <1>3, <2>1, i \in 1 .. Len(q) - 1, u[i] = q[i]
  <2>2. CASE i > k
    BY <1>3, <2>2, i - 1 \in 1 .. Len(q) - 1, u[i - 1] = q[i]
  <2>3. QED
    BY <1>3, <1>8, <2>1, <2>2
<1>9. ASSUME NEW j \in 1 .. Len(q) - 1
      PROVE  \E i \in 1 .. Len(q) : i # k /\ u[j] = q[i]
  <2>1. CASE j < k
    BY <1>3, <2>1, j \in 1 .. Len(q), u[j] = q[j], j # k
  <2>2. CASE ~(j < k)
    BY <1>3, <2>2, j + 1 \in 1 .. Len(q), u[j] = q[j + 1], j + 1 # k
  <2>3. QED
    BY <2>1, <2>2
<1> HIDE DEF u
<1>10. Without(q, k, u)
  BY <1>6, <1>7, <1>8, <1>9 DEF Without
<1>11. QED
  BY <1>2, <1>5, <1>10

\* What ws_next of a linked session may be: NULL, or another linked session.
LEMMA NextOfProperties ==
    ASSUME NEW S, NEW q \in Seq(S), Distinct(q), NEW s,
           NextOf(q, s) # NULL
    PROVE  \E i \in 1 .. Len(q) - 1 : q[i] = s /\ NextOf(q, s) = q[i + 1] /\ q[i + 1] # s
<1>1. \E i \in 1 .. Len(q) - 1 : q[i] = s
  BY DEF NextOf
<1>2. PICK i \in 1 .. Len(q) - 1 : q[i] = s /\ i = CHOOSE j \in 1 .. Len(q) - 1 : q[j] = s
  BY <1>1
<1>3. NextOf(q, s) = q[i + 1]
  BY <1>1, <1>2 DEF NextOf
<1>4. Len(q) \in Nat
  BY LenProperties
<1>5. q[i + 1] # s
  BY <1>2, <1>4 DEF Distinct
<1>6. QED
  BY <1>2, <1>3, <1>5

----------------------------------------------------------------------------
(* The session list and the cursor of wi_poll *)

ListInv ==
    /\ wi_sessions \in Seq(Sess)
    /\ sess_used \subseteq Sess
    /\ cur \in Sess \cup {NULL} /\ nxt \in Sess \cup {NULL}
    /\ ListOK
    /\ CursorOK

\* The loop moves on: the cursor is on a linked session again, or at the end.
LEMMA MoveToCursor ==
    ASSUME NEW q \in Seq(Sess), Distinct(q), NEW s,
           s # NULL => \E i \in 1 .. Len(q) : q[i] = s,
           q = wi_sessions', MoveTo(q, s)
    PROVE  cur' \in Sess \cup {NULL} /\ nxt' \in Sess \cup {NULL} /\ CursorOK'
<1>1. Len(q) \in Nat /\ \A i \in 1 .. Len(q) : q[i] \in Sess
  BY LenProperties
<1>2. cur' = s /\ nxt' = NextOf(q, s)
  BY DEF MoveTo
<1>3. cur' \in Sess \cup {NULL}
  BY <1>1, <1>2
<1>4. nxt' \in Sess \cup {NULL}
  BY <1>1, <1>2, NextOfProperties
<1>5. CursorOK'
  BY <1>2 DEF CursorOK, Linked
<1>6. QED
  BY <1>3, <1>4, <1>5

LEMMA LeavePollCursor ==
    ASSUME NEW where, LeavePoll(where)
    PROVE  cur' \in Sess \cup {NULL} /\ nxt' \in Sess \cup {NULL} /\ CursorOK'
BY DEF LeavePoll, CursorOK

\* next_sess is NULL or linked, and not the session being visited.
LEMMA SavedNextLinked ==
    ASSUME ListInv, pc \in {"visit", "clean"}, cur # NULL, nxt # NULL
    PROVE  \E i \in 1 .. Len(wi_sessions) : wi_sessions[i] = nxt /\ nxt # cur
<1>1. Distinct(wi_sessions) /\ nxt = NextOf(wi_sessions, cur)
  BY DEF ListInv, ListOK, CursorOK, Distinct
<1>2. PICK i \in 1 .. Len(wi_sessions) - 1 : nxt = wi_sessions[i + 1] /\ wi_sessions[i + 1] # cur
  BY <1>1, NextOfProperties DEF ListInv
<1>3. Len(wi_sessions) \in Nat
  BY LenProperties DEF ListInv
<1>4. QED
  BY <1>2, <1>3, i + 1 \in 1 .. Len(wi_sessions)

\* wi_delsess of the session under the cursor keeps list and table in step, and
\* leaves the saved pointer on a linked session.
LEMMA DeleteLists ==
    ASSUME ListInv, pc \in {"visit", "clean"}, cur # NULL,
           NEW w, wi_delsess(cur, w)
    PROVE  /\ wi_sessions' \in Seq(Sess) /\ Distinct(wi_sessions')
           /\ sess_used' \subseteq Sess
           /\ ListOK'
           /\ nxt # NULL => \E j \in 1 .. Len(wi_sessions') : wi_sessions'[j] = nxt
<1>1. /\ wi_sessions' = Unlink(wi_sessions, cur)
      /\ sess_used' = sess_used \ {cur}
  BY Zenon DEF wi_delsess
<1>2. Distinct(wi_sessions) /\ wi_sessions \in Seq(Sess) /\ Linked = sess_used /\ sess_used \subseteq Sess
  BY DEF ListInv, ListOK, Distinct
<1>3. PICK k \in 1 .. Len(wi_sessions) : wi_sessions[k] = cur
  BY DEF ListInv, CursorOK, Linked
<1>0. wi_sessions' = Unlink(wi_sessions, wi_sessions[k])
  BY <1>1, <1>3, Zenon
<1>9. wi_sessions' \in Seq(Sess) /\ Without(wi_sessions, k, wi_sessions')
  BY <1>0, <1>2, UnlinkProperties
<1>4. /\ Distinct(wi_sessions')
      /\ Len(wi_sessions') = Len(wi_sessions) - 1
      /\ \A i \in 1 .. Len(wi_sessions) : i # k =>
            \E j \in 1 .. Len(wi_sessions) - 1 : wi_sessions'[j] = wi_sessions[i]
      /\ \A j \in 1 .. Len(wi_sessions) - 1 :
            \E i \in 1 .. Len(wi_sessions) : i # k /\ wi_sessions'[j] = wi_sessions[i]
  BY <1>9 DEF Without
<1>5. Linked' = Linked \ {cur}
  <2>1. ASSUME NEW s \in Linked'
        PROVE  s \in Linked \ {cur}
    <3>1. PICK j \in 1 .. Len(wi_sessions') : wi_sessions'[j] = s
      BY <2>1 DEF Linked
    <3>2. PICK i \in 1 .. Len(wi_sessions) : i # k /\ wi_sessions[i] = s
      BY <1>4, <3>1
    <3>3. s # cur
      BY <1>2, <1>3, <3>2 DEF Distinct
    <3>4. QED
      BY <3>2, <3>3 DEF Linked
  <2>2. ASSUME NEW s \in Linked, s # cur
        PROVE  s \in Linked'
    <3>1. PICK i \in 1 .. Len(wi_sessions) : wi_sessions[i] = s /\ i # k
      BY <1>3, <2>2 DEF Linked
    <3>2. PICK j \in 1 .. Len(wi_sessions') : wi_sessions'[j] = s
      BY <1>4, <3>1
    <3>3. QED
      BY <3>2 DEF Linked
  <2>3. QED
    BY <2>1, <2>2
<1>6. ListOK'
  BY <1>1, <1>2, <1>4, <1>5 DEF ListOK, Distinct
<1>7. ASSUME nxt # NULL
      PROVE  \E j \in 1 .. Len(wi_sessions') : wi_sessions'[j] = nxt
  BY <1>3, <1>4, <1>7, SavedNextLinked
<1>8. QED
  BY <1>1, <1>2, <1>4, <1>6, <1>7, <1>9

\* The end of the loop's body, after a deletion or without one.
LEMMA AdvanceKeepsListInv ==
    ASSUME ListInv, pc = "visit", cur # NULL, Advance(wi_sessions'),
           \/ UNCHANGED lists
           \/ \E w : wi_delsess(cur, w)
    PROVE  ListInv'
<1>1. /\ wi_sessions' \in Seq(Sess) /\ Distinct(wi_sessions')
      /\ sess_used' \subseteq Sess
      /\ ListOK'
      /\ nxt # NULL => \E j \in 1 .. Len(wi_sessions') : wi_sessions'[j] = nxt
  <2>1. CASE UNCHANGED lists
    BY <2>1, SavedNextLinked DEF ListInv, ListOK, Linked, lists, Distinct
  <2>2. CASE \E w : wi_delsess(cur, w)
    BY <2>2, DeleteLists
  <2>3. QED
    BY <2>1, <2>2
<1>2. cur' \in Sess \cup {NULL} /\ nxt' \in Sess \cup {NULL} /\ CursorOK'
  <2>1. CASE nxt = NULL
    BY <2>1, LeavePollCursor DEF Advance
  <2>2. CASE nxt # NULL
    BY <1>1, <2>2, MoveToCursor, Zenon DEF Advance
  <2>3. QED
    BY <2>1, <2>2
<1>3. QED
  BY <1>1, <1>2 DEF ListInv

LEMMA AgainKeepsListInv ==
    ASSUME ListInv, NEW w, Again(w)
    PROVE  ListInv'
BY DEF ListInv, ListOK, CursorOK, Linked, Again, lists, cursor

LEMMA BreakKeepsListInv ==
    ASSUME ListInv, pc = "visit", cur # NULL, NEW w, Break(w)
    PROVE  ListInv'
<1>1. UNCHANGED lists \/ wi_delsess(cur, w)
  BY Zenon DEF Break
<1>2. Advance(wi_sessions')
  BY Zenon DEF Break
<1>3. QED
  BY <1>1, <1>2, AdvanceKeepsListInv

\* What a visit of a session that is not ENDING or PUSHING comes to.
LEMMA VisitOutcome ==
    ASSUME VisitHeader \/ VisitPostRx \/ VisitContent \/ VisitSendData
    PROVE  /\ pc = "visit" /\ cur # NULL
           /\ \E w : Again(w) \/ Break(w)
<1>1. CASE VisitHeader
  <2>1. \E w : Again(w) \/ Break(w)
    BY <1>1, Zenon DEF VisitHeader
  <2>2. QED
    BY <1>1, <2>1, Zenon DEF VisitHeader, Visiting
<1>2. CASE VisitPostRx
  <2>1. \E w : Again(w) \/ Break(w)
    BY <1>2, Zenon DEF VisitPostRx
  <2>2. QED
    BY <1>2, <2>1, Zenon DEF VisitPostRx, Visiting
<1>3. CASE VisitContent
  <2>1. \E w : Again(w) \/ Break(w)
    BY <1>3, Zenon DEF VisitContent
  <2>2. QED
    BY <1>3, <2>1, Zenon DEF VisitContent, Visiting
<1>4. CASE VisitSendData
  <2>1. \E w : Again(w) \/ Break(w)
    BY <1>4, Zenon DEF VisitSendData
  <2>2. QED
    BY <1>4, <2>1, Zenon DEF VisitSendData, Visiting
<1>5. QED
  BY <1>1, <1>2, <1>3, <1>4

\* A loop over a list q that is or becomes the session list starts at its head.
LEMMA StartLoopCursor ==
    ASSUME NEW q \in Seq(Sess), Distinct(q), q = wi_sessions', StartLoop(q)
    PROVE  cur' \in Sess \cup {NULL} /\ nxt' \in Sess \cup {NULL} /\ CursorOK'
<1>1. CASE q = <<>>
  BY <1>1, LeavePollCursor DEF StartLoop
<1>2. CASE q # <<>>
  <2>1. Head(q) = q[1] /\ 1 \in 1 .. Len(q)
    BY <1>2
  <2>2. MoveTo(q, Head(q))
    BY <1>2, Zenon DEF StartLoop
  <2>3. QED
    BY <2>1, <2>2, MoveToCursor
<1>3. QED
  BY <1>1, <1>2

LEMMA AcceptKeepsListInv ==
    ASSUME ListInv, PollAccept
    PROVE  ListInv'
<1> DEFINE s == FirstSlot(Sess \ sess_used)
<1>1. /\ sess_used # Sess
      /\ sess_used' = sess_used \cup {s}
      /\ wi_sessions' = <<s>> \o wi_sessions
      /\ StartLoop(wi_sessions')
  BY Zenon DEF PollAccept
<1>2. Sess \ sess_used # {} /\ Sess \ sess_used \subseteq Nat
  <2>1. Sess \subseteq Nat
    BY SlotsAssumption DEF Sess
  <2>2. sess_used \subseteq Sess
    BY DEF ListInv
  <2>3. QED
    BY <1>1, <2>1, <2>2
<1>3. s \in Sess \ sess_used
  BY <1>2, FirstSlotIn
<1>4. wi_sessions \in Seq(Sess) /\ Linked = sess_used /\ Distinct(wi_sessions)
  BY DEF ListInv, ListOK, Distinct
<1>5. /\ wi_sessions' \in Seq(Sess)
      /\ Len(wi_sessions') = Len(wi_sessions) + 1
      /\ wi_sessions'[1] = s
      /\ \A i \in 1 .. Len(wi_sessions) : wi_sessions'[i + 1] = wi_sessions[i]
      /\ Len(wi_sessions) \in Nat
  <2> HIDE DEF s
  <2>1. QED
    BY <1>1, <1>3, <1>4
<1>6. Linked' = sess_used'
  <2> HIDE DEF s
  <2>1. ASSUME NEW t \in Linked'
        PROVE  t \in sess_used'
    <3>1. PICK i \in 1 .. Len(wi_sessions) + 1 : wi_sessions'[i] = t
      BY <1>5 DEF Linked
    <3>2. CASE i = 1
      BY <1>1, <1>5, <3>1, <3>2
    <3>3. CASE i # 1
      BY <1>1, <1>4, <1>5, <3>1, <3>3, i - 1 \in 1 .. Len(wi_sessions),
         wi_sessions'[(i - 1) + 1] = wi_sessions[i - 1] DEF Linked
    <3>4. QED
      BY <3>2, <3>3
  <2>2. ASSUME NEW t \in sess_used'
        PROVE  t \in Linked'
    <3>1. CASE t = s
      BY <1>5, <3>1 DEF Linked
    <3>2. CASE t \in sess_used
      <4>1. PICK i \in 1 .. Len(wi_sessions) : wi_sessions[i] = t
        BY <1>4, <3>2 DEF Linked
      <4>2. QED
        BY <1>5, <4>1, i + 1 \in 1 .. Len(wi_sessions') DEF Linked
    <3>3. QED
      BY <1>1, <2>2, <3>1, <3>2
  <2>3. QED
    BY <2>1, <2>2
<1>7. Distinct(wi_sessions')
  <2> HIDE DEF s
  <2>1. ASSUME NEW i \in 1 .. Len(wi_sessions), s = wi_sessions[i]
        PROVE  FALSE
    BY <1>3, <1>4, <2>1 DEF Linked
  <2>2. ASSUME NEW i \in 1 .. Len(wi_sessions'), NEW j \in 1 .. Len(wi_sessions'),
               wi_sessions'[i] = wi_sessions'[j]
        PROVE  i = j
    <3>1. \A k \in 1 .. Len(wi_sessions') :
             k = 1 \/ (k - 1 \in 1 .. Len(wi_sessions) /\ wi_sessions'[k] = wi_sessions[k - 1])
      BY <1>5
    <3>2. QED
      BY <1>4, <1>5, <2>1, <2>2, <3>1 DEF Distinct
  <2>3. QED
    BY <2>2 DEF Distinct
<1>8. ListOK'
  BY <1>6, <1>7 DEF ListOK, Distinct
<1>9. cur' \in Sess \cup {NULL} /\ nxt' \in Sess \cup {NULL} /\ CursorOK'
  BY <1>1, <1>5, <1>7, StartLoopCursor, Zenon
<1>10. QED
  BY <1>1, <1>2, <1>3, <1>5, <1>8, <1>9 DEF ListInv

\* Steps that touch neither the list nor the cursor.
LEMMA FrameKeepsListInv ==
    ASSUME ListInv, UNCHANGED <<lists, cur, nxt>>,
           pc' = pc \/ pc' \notin {"visit", "clean"} \/ cur = NULL
    PROVE  ListInv'
BY DEF ListInv, ListOK, CursorOK, Linked, lists

LEMMA PollKeepsListInv ==
    ASSUME ListInv, Poll
    PROVE  ListInv'
<1>1. wi_sessions \in Seq(Sess) /\ Distinct(wi_sessions)
  BY DEF ListInv, ListOK, Distinct
<1>2. CASE UNCHANGED lists /\ StartLoop(wi_sessions)
  <2>1. wi_sessions' = wi_sessions /\ sess_used' = sess_used
    BY <1>2 DEF lists
  <2>2. cur' \in Sess \cup {NULL} /\ nxt' \in Sess \cup {NULL} /\ CursorOK'
    BY <1>1, <1>2, <2>1, StartLoopCursor, Zenon
  <2>3. QED
    BY <2>1, <2>2 DEF ListInv, ListOK, Linked
<1>3. CASE UNCHANGED lists /\ \E where : LeavePoll(where)
  BY <1>3, LeavePollCursor DEF ListInv, ListOK, Linked, lists
<1>4. CASE PollNoConn
  BY <1>2, <1>4, Zenon DEF PollNoConn, lists
<1>5. CASE PollRefuse
  BY <1>2, <1>5, Zenon DEF PollRefuse, lists
<1>6. CASE PollAccept
  BY <1>6, AcceptKeepsListInv
<1>7. CASE PollAcceptNoSlot
  BY <1>3, <1>7, Zenon DEF PollAcceptNoSlot, PollFails, lists
<1>8. CASE PollNameError \/ PollSelectError
  BY <1>3, <1>8, Zenon DEF PollNameError, PollSelectError, PollFails, lists
<1>9. CASE PollPanic
  BY <1>3, <1>9, Zenon DEF PollPanic, lists
<1>10. QED
  BY <1>4, <1>5, <1>6, <1>7, <1>8, <1>9 DEF Poll

LEMMA VisitKeepsListInv ==
    ASSUME ListInv, Visit
    PROVE  ListInv'
<1>1. CASE VisitHeader \/ VisitPostRx \/ VisitContent \/ VisitSendData
  BY <1>1, VisitOutcome, AgainKeepsListInv, BreakKeepsListInv
<1>2. CASE VisitRecvError
  BY <1>2, LeavePollCursor DEF VisitRecvError, PollFails, ListInv, ListOK, Linked, lists
<1>3. CASE VisitEnding
  <2>1. pc = "visit" /\ cur # NULL /\ Advance(wi_sessions') /\ \E w : wi_delsess(cur, w)
    BY <1>3, Zenon DEF VisitEnding, Visiting
  <2>2. QED
    BY <2>1, AdvanceKeepsListInv
<1>4. CASE VisitPushing
  <2>1. pc = "visit" /\ cur # NULL /\ Advance(wi_sessions) /\ UNCHANGED lists
    BY <1>4, Zenon DEF VisitPushing, Visiting, lists
  <2>2. Advance(wi_sessions')
    BY <2>1, Zenon DEF lists
  <2>3. QED
    BY <2>1, <2>2, AdvanceKeepsListInv
<1>5. QED
  BY <1>1, <1>2, <1>3, <1>4 DEF Visit

LEMMA RestartKeepsListInv ==
    ASSUME ListInv, Restart
    PROVE  ListInv'
<1>1. CASE RestartClose
  <2>1. /\ wi_sessions' = wi_sessions /\ sess_used' = sess_used
        /\ MoveTo(wi_sessions, HeadOf(wi_sessions))
    BY <1>1 DEF RestartClose, lists
  <2>2. wi_sessions \in Seq(Sess) /\ Distinct(wi_sessions)
    BY DEF ListInv, ListOK, Distinct
  <2>3. HeadOf(wi_sessions) # NULL =>
           \E i \in 1 .. Len(wi_sessions) : wi_sessions[i] = HeadOf(wi_sessions)
    <3>1. CASE wi_sessions = <<>>
      BY <3>1 DEF HeadOf
    <3>2. CASE wi_sessions # <<>>
      BY <2>2, <3>2, Head(wi_sessions) = wi_sessions[1], 1 \in 1 .. Len(wi_sessions) DEF HeadOf
    <3>3. QED
      BY <3>1, <3>2
  <2>4. cur' \in Sess \cup {NULL} /\ nxt' \in Sess \cup {NULL} /\ CursorOK'
    BY <2>1, <2>2, <2>3, MoveToCursor
  <2>5. QED
    BY <2>1, <2>4 DEF ListInv, ListOK, Linked
<1>2. CASE RestartDelete
  <2>1. /\ pc = "clean" /\ cur # NULL
        /\ \E w : wi_delsess(cur, w)
        /\ MoveTo(wi_sessions', nxt)
    BY <1>2, Zenon DEF RestartDelete
  <2>2. /\ wi_sessions' \in Seq(Sess) /\ Distinct(wi_sessions')
        /\ sess_used' \subseteq Sess
        /\ ListOK'
        /\ nxt # NULL => \E j \in 1 .. Len(wi_sessions') : wi_sessions'[j] = nxt
    BY <2>1, DeleteLists
  <2>3. cur' \in Sess \cup {NULL} /\ nxt' \in Sess \cup {NULL} /\ CursorOK'
    BY <2>1, <2>2, MoveToCursor, Zenon
  <2>4. QED
    BY <2>2, <2>3 DEF ListInv
<1>3. CASE RestartInit
  BY <1>3, FrameKeepsListInv DEF RestartInit, lists, cursor
<1>4. QED
  BY <1>1, <1>2, <1>3 DEF Restart

LEMMA EnvironmentKeepsListInv ==
    ASSUME ListInv, Environment
    PROVE  ListInv'
<1>1. UNCHANGED <<lists, cur, nxt, pc>>
  BY Zenon DEF Environment, Client, Tick, PushEnd, lists, cursor
<1>2. QED
  BY <1>1, FrameKeepsListInv DEF lists

LEMMA InitListInv == Init => ListInv
BY DEF Init, ListInv, ListOK, CursorOK, Linked, NULL

LEMMA NextKeepsListInv == ListInv /\ [Next]_vars => ListInv'
<1> SUFFICES ASSUME ListInv, [Next]_vars
             PROVE  ListInv'
  OBVIOUS
<1>1. CASE Poll
  BY <1>1, PollKeepsListInv
<1>2. CASE Visit
  BY <1>2, VisitKeepsListInv
<1>3. CASE Restart
  BY <1>3, RestartKeepsListInv
<1>4. CASE Environment
  BY <1>4, EnvironmentKeepsListInv
<1>5. CASE UNCHANGED vars
  BY <1>5, FrameKeepsListInv DEF vars, lists
<1>6. QED
  BY <1>1, <1>2, <1>3, <1>4, <1>5 DEF Next, Server

\* The session list and the slot table always agree, and the pointer wi_poll and
\* wi_step save before they visit or delete a session is never stale.
THEOREM ListAndCursorSafe == Spec => [](ListOK /\ CursorOK)
<1>1. Init => ListInv
  BY InitListInv
<1>2. ListInv /\ [Next]_vars => ListInv'
  BY NextKeepsListInv
<1>3. ListInv => ListOK /\ CursorOK
  BY DEF ListInv
<1>4. QED
  BY <1>1, <1>2, <1>3, PTL DEF Spec

\* The pointers saved across visits, cur_session and next_session, alone: each is a session
\* of the list or NULL, and the one wi_poll goes on with is the one behind the one visited.
THEOREM CursorSafe == Spec => []CursorOK
BY ListAndCursorSafe, PTL

----------------------------------------------------------------------------
(* The working set of a session *)

WorkSet == [se : WiSess, co : Connection, tx : SUBSET TxSlot, form : SUBSET FormSlot,
            file : [FileSlot -> WiFile], err : BOOLEAN]

Own(w) == {w.se.files[i] : i \in 1 .. Len(w.se.files)}

\* A well-formed working set.
Base(w) ==
    /\ w \in WorkSet
    /\ w.se.tx \subseteq w.tx
    /\ w.se.forms \subseteq w.form
    /\ \A f \in Own(w) : w.file[f].kind # "free"
    /\ Distinct(w.se.files)
    /\ w.se.sock = NoSock => w.se.state = "ENDING"
    /\ w.se.sock # NoSock => w.co.phase = "open"

\* From v to w only what belongs to the session changed; its socket is the same or closed.
Frame(v, w) ==
    /\ w.se.sock \in {v.se.sock, NoSock}
    /\ w.tx \ w.se.tx = v.tx \ v.se.tx
    /\ v.form \ v.se.forms \subseteq w.form \ w.se.forms
    /\ \A f \in FileSlot : v.file[f] # FreeFile /\ f \notin Own(v) =>
          w.file[f] = v.file[f] /\ f \notin Own(w)

Keeps(v, w) == Base(w) /\ Frame(v, w)

\* The session is over: nothing is read or sent for it any more.
Over(w) == w.se.state = "ENDING" /\ w.se.sock = NoSock

\* State and files are as they were; a file may have fewer blocks left.
Same(v, w) ==
    /\ w.se.state = v.se.state
    /\ w.se.files = v.se.files
    /\ "BINARY" \in w.se.flags <=> "BINARY" \in v.se.flags
    /\ \A f \in FileSlot : w.file[f].kind = v.file[f].kind

\* What most handlers do: work on the session as it is, or end it.
Step(v, w) == Keeps(v, w) /\ (Over(w) \/ Same(v, w))

\* The file a session reads or sends is there, and one sent as binary is binary.
Ready(w) ==
    /\ w.se.state \in {"POSTRX", "CONTENT"} => w.se.files # <<>>
    /\ "BINARY" \in w.se.flags /\ w.se.sock # NoSock =>
          w.se.files # <<>> /\ w.file[FileHead(w)].kind = "BINARY"

LEMMA KeepsTrans ==
    ASSUME NEW u, NEW v, NEW w, Keeps(u, v), Keeps(v, w)
    PROVE  Keeps(u, w)
BY DEF Keeps, Frame

LEMMA KeepsSelf ==
    ASSUME NEW w, Base(w)
    PROVE  Keeps(w, w)
BY DEF Keeps, Frame

----------------------------------------------------------------------------
(* Steps on a session's own fields *)

LEMMA SlotTypes ==
    /\ Sess \subseteq Nat /\ TxSlot \subseteq Nat /\ FileSlot \subseteq Nat /\ FormSlot \subseteq Nat
    /\ NULL \notin Sess
BY SlotsAssumption DEF Sess, TxSlot, FileSlot, FormSlot, NULL

LEMMA ConnectionTypes ==
    /\ NoConnection \in Connection
    /\ \A co \in Connection : ClosedConn(co) \in Connection
<1>1. AnyRequest \in Request
  BY RequestAssumption DEF AnyRequest
<1>2. NoConnection \in Connection
  BY <1>1, UnitsAssumption DEF NoConnection, Connection
<1>3. ASSUME NEW co \in Connection
      PROVE  ClosedConn(co) \in Connection
  BY <1>2, <1>3 DEF ClosedConn, Connection
<1>4. QED
  BY <1>2, <1>3

\* A change of the session's plain fields and of its open connection keeps all else.
LEMMA PlainStep ==
    ASSUME NEW w, Base(w), NEW r,
           r \in WorkSet,
           r.tx = w.tx, r.form = w.form, r.file = w.file,
           r.se.tx = w.se.tx, r.se.forms = w.se.forms, r.se.files = w.se.files,
           r.se.sock \in {w.se.sock, NoSock},
           r.se.sock = NoSock => r.se.state = "ENDING",
           r.se.sock # NoSock => r.co.phase = w.co.phase
    PROVE  Keeps(w, r)
BY DEF Keeps, Base, Frame, Own

LEMMA StepTrans ==
    ASSUME NEW u, NEW v, NEW w, Step(u, v), Step(v, w)
    PROVE  Step(u, w)
<1>1. Keeps(u, w)
  BY KeepsTrans DEF Step
<1>2. w.se.sock \in {v.se.sock, NoSock}
  BY DEF Step, Keeps, Frame
<1>3. Over(w) \/ Same(u, w)
  BY <1>2 DEF Step, Over, Same
<1>4. QED
  BY <1>1, <1>3 DEF Step

LEMMA OwnInTable ==
    ASSUME NEW w, Base(w)
    PROVE  /\ Own(w) \subseteq FileSlot
           /\ Len(w.se.files) \in Nat
           /\ w.se.files # <<>> =>
                 /\ FileHead(w) \in FileSlot /\ FileHead(w) \in Own(w)
                 /\ FileHead(w) = w.se.files[1]
<1>1. w.se.files \in Seq(FileSlot)
  BY DEF Base, WorkSet, WiSess
<1>2. Len(w.se.files) \in Nat /\ \A i \in 1 .. Len(w.se.files) : w.se.files[i] \in FileSlot
  BY <1>1, LenProperties
<1>3. w.se.files # <<>> => 1 \in 1 .. Len(w.se.files) /\ Head(w.se.files) = w.se.files[1]
  BY <1>1, <1>2
<1>4. QED
  BY <1>2, <1>3 DEF Own, FileHead

\* Steps keep what reading and sending rely on.
LEMMA StepReady ==
    ASSUME NEW v, NEW w, Step(v, w), Ready(v), Base(v)
    PROVE  Ready(w)
<1>1. w.se.sock \in {v.se.sock, NoSock}
  BY DEF Step, Keeps, Frame
<1>2. CASE Over(w)
  BY <1>2 DEF Over, Ready
<1>3. CASE Same(v, w)
  BY <1>1, <1>3, OwnInTable DEF Same, Ready, FileHead
<1>4. QED
  BY <1>2, <1>3 DEF Step

\* A step on the session's other fields and on its open connection.
LEMMA FieldStep ==
    ASSUME NEW w, Base(w), NEW r \in WorkSet,
           r.tx = w.tx, r.form = w.form, r.file = w.file,
           r.se.tx = w.se.tx, r.se.forms = w.se.forms, r.se.files = w.se.files,
           r.se.sock = w.se.sock, r.se.state = w.se.state, r.co.phase = w.co.phase,
           "BINARY" \in r.se.flags <=> "BINARY" \in w.se.flags
    PROVE  Step(w, r)
<1>1. r.se.sock = NoSock => r.se.state = "ENDING"
  BY DEF Base
<1>2. Keeps(w, r)
  BY <1>1, PlainStep
<1>3. Same(w, r)
  BY DEF Same
<1>4. QED
  BY <1>2, <1>3 DEF Step

----------------------------------------------------------------------------
(* One field at a time *)

LEMMA ErrStep ==
    ASSUME NEW w, Base(w)
    PROVE  /\ Step(w, Ok(w)) /\ Step(w, Fail(w))
           /\ Ok(w).se = w.se /\ Fail(w).se = w.se
           /\ Ok(w).co = w.co /\ Fail(w).co = w.co
           /\ Ok(w).file = w.file /\ Fail(w).file = w.file
           /\ Ok(w).err = FALSE /\ Fail(w).err = TRUE
<1>1. w \in WorkSet
  BY DEF Base
<1>2. ASSUME NEW b \in BOOLEAN, NEW r, r = [w EXCEPT !.err = b]
      PROVE  /\ Step(w, r)
             /\ r.se = w.se /\ r.co = w.co /\ r.file = w.file /\ r.err = b
  <2>1. /\ r \in WorkSet
        /\ r.se = w.se /\ r.co = w.co /\ r.tx = w.tx /\ r.form = w.form
        /\ r.file = w.file /\ r.err = b
    BY <1>1, <1>2 DEF WorkSet
  <2>2. QED
    BY <2>1, FieldStep
<1>3. Ok(w) = [w EXCEPT !.err = FALSE]
  BY DEF Ok
<1>4. Fail(w) = [w EXCEPT !.err = TRUE]
  BY DEF Fail
<1>5. Step(w, Ok(w)) /\ Ok(w).se = w.se /\ Ok(w).co = w.co /\ Ok(w).file = w.file /\ Ok(w).err = FALSE
  BY <1>2, <1>3
<1>6. Step(w, Fail(w)) /\ Fail(w).se = w.se /\ Fail(w).co = w.co /\ Fail(w).file = w.file /\ Fail(w).err = TRUE
  BY <1>2, <1>4
<1>7. QED
  BY <1>5, <1>6

\* The fields a handler sets.
SetIdle(w, x)   == [w EXCEPT !.se.idle = x]
SetRx(w, y, x)  == [w EXCEPT !.se.rx = y, !.se.idle = x]
SetState(w, st) == [w EXCEPT !.se.state = st]
SetFlags(w, x)  == [w EXCEPT !.se.flags = x]

\* The idle time, alone or with the received units.
LEMMA IdleStep ==
    ASSUME NEW w, Base(w), NEW x \in 0 .. TMO + 1, NEW y \in 0 .. RXBUF,
           NEW r, r = SetIdle(w, x) \/ r = SetRx(w, y, x)
    PROVE  /\ Step(w, r)
           /\ r.se.files = w.se.files /\ r.se.flags = w.se.flags /\ r.se.state = w.se.state
           /\ r.se.sock = w.se.sock /\ r.file = w.file /\ r.co = w.co
<1>1. w \in WorkSet
  BY DEF Base
<1>2. /\ \/ r.se = [w.se EXCEPT !.idle = x]
         \/ r.se = [w.se EXCEPT !.rx = y, !.idle = x]
      /\ r.co = w.co /\ r.tx = w.tx /\ r.form = w.form /\ r.file = w.file /\ r.err = w.err
  BY <1>1 DEF WorkSet, SetIdle, SetRx
<1>3. ASSUME NEW se \in WiSess
      PROVE  /\ [se EXCEPT !.idle = x] \in WiSess
             /\ [se EXCEPT !.rx = y, !.idle = x] \in WiSess
  BY <1>3 DEF WiSess
<1>4. w.se \in WiSess /\ r.se \in WiSess
  BY <1>1, <1>2, <1>3 DEF WorkSet
<1>5. r \in WorkSet
  BY <1>1, <1>2, <1>4 DEF WorkSet, SetIdle, SetRx
<1>6. /\ r.se.tx = w.se.tx /\ r.se.forms = w.se.forms /\ r.se.files = w.se.files
      /\ r.se.sock = w.se.sock /\ r.se.state = w.se.state /\ r.se.flags = w.se.flags
  BY <1>2, <1>4 DEF WiSess
<1>7. Step(w, r)
  BY <1>2, <1>5, <1>6, FieldStep
<1>8. QED
  BY <1>2, <1>6, <1>7

\* A set of flags that says the same of BINARY.
LEMMA FlagsStep ==
    ASSUME NEW w, Base(w), NEW x \in SUBSET {"BINARY", "HEADERSENT"},
           "BINARY" \in x <=> "BINARY" \in w.se.flags,
           NEW r, r = [w EXCEPT !.se.flags = x]
    PROVE  /\ Step(w, r)
           /\ r.se = [w.se EXCEPT !.flags = x]
           /\ r.se.flags = x /\ r.se.files = w.se.files /\ r.se.state = w.se.state
           /\ r.se.sock = w.se.sock /\ r.file = w.file /\ r.co = w.co
<1>1. w \in WorkSet
  BY DEF Base
<1>2. /\ r.se = [w.se EXCEPT !.flags = x]
      /\ r.co = w.co /\ r.tx = w.tx /\ r.form = w.form /\ r.file = w.file /\ r.err = w.err
  BY <1>1 DEF WorkSet
<1>3. w.se \in WiSess /\ r.se \in WiSess
  BY <1>1, <1>2 DEF WorkSet, WiSess
<1>4. r \in WorkSet
  BY <1>1, <1>2, <1>3 DEF WorkSet
<1>5. /\ r.se.tx = w.se.tx /\ r.se.forms = w.se.forms /\ r.se.files = w.se.files
      /\ r.se.sock = w.se.sock /\ r.se.state = w.se.state /\ r.se.flags = x
  BY <1>2, <1>3 DEF WiSess
<1>6. Step(w, r)
  BY <1>2, <1>4, <1>5, FieldStep
<1>7. QED
  BY <1>2, <1>5, <1>6

\* What is sent changes the connection's counts only.
LEMMA ConnStep ==
    ASSUME NEW w, Base(w), NEW co \in Connection, co.phase = w.co.phase,
           NEW r, r = [w EXCEPT !.co = co]
    PROVE  /\ Step(w, r)
           /\ r.se = w.se /\ r.co = co /\ r.file = w.file
<1>1. w \in WorkSet
  BY DEF Base
<1>2. /\ r.se = w.se /\ r.co = co
      /\ r.tx = w.tx /\ r.form = w.form /\ r.file = w.file /\ r.err = w.err
  BY <1>1 DEF WorkSet
<1>3. r \in WorkSet
  BY <1>1, <1>2 DEF WorkSet
<1>4. Step(w, r)
  BY <1>2, <1>3, FieldStep
<1>5. QED
  BY <1>2, <1>4

LEMMA Min2Range ==
    ASSUME NEW a \in Nat, NEW b \in Nat
    PROVE  Min2(a, b) \in Nat /\ Min2(a, b) <= a /\ Min2(a, b) <= b
BY DEF Min2

\* Units are taken from the room a connection has.
LEMMA RoomStep ==
    ASSUME NEW w, Base(w), NEW n \in Nat, n <= w.co.room,
           NEW r, r = [w EXCEPT !.co.room = @ - n]
    PROVE  /\ Step(w, r)
           /\ r.se = w.se /\ r.file = w.file
<1> DEFINE co == [w.co EXCEPT !.room = @ - n]
<1>1. w \in WorkSet /\ w.co \in Connection
  BY DEF Base, WorkSet
<1>2. w.co.room \in 0 .. ROOM /\ w.co.room - n \in 0 .. ROOM
  BY <1>1, UnitsAssumption DEF Connection
<1>3. co \in Connection /\ co.phase = w.co.phase
  BY <1>1, <1>2 DEF Connection
<1>4. r = [w EXCEPT !.co = co]
  BY <1>1 DEF WorkSet
<1> HIDE DEF co
<1>5. QED
  BY <1>3, <1>4, ConnStep

LEMMA SendHdrStep ==
    ASSUME NEW w, Base(w), CanSend(w)
    PROVE  /\ Step(w, SendHdr(w))
           /\ SendHdr(w).se = w.se /\ SendHdr(w).file = w.file
<1> DEFINE co == [w.co EXCEPT !.room = @ - 1, !.hdrs = Min2(2, @ + 1)]
<1>1. w \in WorkSet /\ w.co \in Connection
  BY DEF Base, WorkSet
<1>2. w.co.room \in 0 .. ROOM /\ w.co.room - 1 \in 0 .. ROOM
  BY <1>1, UnitsAssumption DEF Connection, CanSend
<1>3. w.co.hdrs \in 0 .. 2 /\ Min2(2, w.co.hdrs + 1) \in 0 .. 2
  BY <1>1 DEF Connection, Min2
<1>4. co \in Connection /\ co.phase = w.co.phase
  BY <1>1, <1>2, <1>3 DEF Connection
<1>5. SendHdr(w) = [w EXCEPT !.co = co]
  BY <1>1 DEF WorkSet, SendHdr
<1> HIDE DEF co
<1>6. QED
  BY <1>4, <1>5, ConnStep

----------------------------------------------------------------------------
(* Closing and replying *)

LEMMA CloseSocketStep ==
    ASSUME NEW w, Base(w)
    PROVE  /\ Step(w, CloseSocket(w)) /\ Over(CloseSocket(w))
           /\ CloseSocket(w).se.files = w.se.files /\ CloseSocket(w).file = w.file
           /\ CloseSocket(w).tx = w.tx /\ CloseSocket(w).form = w.form
<1> DEFINE r == CloseSocket(w)
<1>1. w \in WorkSet /\ w.co \in Connection /\ ClosedConn(w.co) \in Connection
  BY ConnectionTypes DEF Base, WorkSet
<1>2. /\ r.se = [w.se EXCEPT !.sock = NoSock, !.state = "ENDING"]
      /\ r.co = IF w.se.sock = NoSock THEN w.co ELSE ClosedConn(w.co)
      /\ r.tx = w.tx /\ r.form = w.form /\ r.file = w.file /\ r.err = w.err
  BY <1>1 DEF WorkSet, CloseSocket
<1>3. w.se \in WiSess /\ r.se \in WiSess
  BY <1>1, <1>2 DEF WorkSet, WiSess, State
<1>4. r.co \in Connection
  BY <1>1, <1>2
<1>5. r \in WorkSet
  BY <1>1, <1>2, <1>3, <1>4 DEF WorkSet, CloseSocket
<1>6. /\ r.se.tx = w.se.tx /\ r.se.forms = w.se.forms /\ r.se.files = w.se.files
      /\ r.se.sock = NoSock /\ r.se.state = "ENDING"
  BY <1>2, <1>3 DEF WiSess
<1> HIDE DEF r
<1>7. Keeps(w, r)
  BY <1>2, <1>5, <1>6, PlainStep
<1>8. Over(r)
  BY <1>6 DEF Over
<1>9. Step(w, r)
  BY <1>7, <1>8 DEF Step
<1>10. QED
  BY <1>2, <1>6, <1>8, <1>9 DEF r

\* wi_senderr and wi_txdone end the session and leave its files alone.
LEMMA EndingStep ==
    ASSUME NEW w, Base(w)
    PROVE  /\ Step(w, wi_senderr(w)) /\ Over(wi_senderr(w))
           /\ wi_senderr(w).se.files = w.se.files /\ wi_senderr(w).file = w.file
           /\ Step(w, wi_txdone(w)) /\ Over(wi_txdone(w))
           /\ wi_txdone(w).se.files = w.se.files /\ wi_txdone(w).file = w.file
<1> DEFINE v == IF CanSend(w) THEN SendHdr(w) ELSE w
<1>1. ASSUME NEW u, Base(u)
      PROVE  /\ Step(u, Ok(CloseSocket(u))) /\ Over(Ok(CloseSocket(u)))
             /\ Ok(CloseSocket(u)).se.files = u.se.files /\ Ok(CloseSocket(u)).file = u.file
  <2>1. Step(u, CloseSocket(u)) /\ Over(CloseSocket(u)) /\ Base(CloseSocket(u))
    BY <1>1, CloseSocketStep DEF Step, Keeps
  <2>2. Step(CloseSocket(u), Ok(CloseSocket(u))) /\ Ok(CloseSocket(u)).se = CloseSocket(u).se
        /\ Ok(CloseSocket(u)).file = CloseSocket(u).file
    BY <2>1, ErrStep
  <2>3. Step(u, Ok(CloseSocket(u)))
    BY <2>1, <2>2, StepTrans
  <2>4. QED
    BY <1>1, <2>1, <2>2, <2>3, CloseSocketStep DEF Over
<1>2. Step(w, v) /\ v.se = w.se /\ v.file = w.file /\ Base(v)
  <2>1. CASE CanSend(w)
    BY <2>1, SendHdrStep DEF Step, Keeps
  <2>2. CASE ~CanSend(w)
    BY <2>2, KeepsSelf DEF Step, Same
  <2>3. QED
    BY <2>1, <2>2
<1>3. wi_senderr(w) = Ok(CloseSocket(v)) /\ wi_txdone(w) = Ok(CloseSocket(w))
  BY DEF wi_senderr, wi_txdone
<1> HIDE DEF v
<1>4. Step(w, Ok(CloseSocket(v)))
  BY <1>1, <1>2, StepTrans
<1>5. QED
  BY <1>1, <1>2, <1>3, <1>4

LEMMA ReplyHdrStep ==
    ASSUME NEW w, Base(w)
    PROVE  /\ Step(w, wi_replyhdr(w))
           /\ wi_replyhdr(w).se.files = w.se.files /\ wi_replyhdr(w).se.state = w.se.state
           /\ wi_replyhdr(w).se.sock = w.se.sock /\ wi_replyhdr(w).file = w.file
           /\ "BINARY" \in wi_replyhdr(w).se.flags <=> "BINARY" \in w.se.flags
<1>1. CASE CanSend(w)
  <2> DEFINE v == SendHdr(w)
             x == v.se.flags \cup {"HEADERSENT"}
             u == [v EXCEPT !.se.flags = x]
  <2>1. Step(w, v) /\ v.se = w.se /\ v.file = w.file /\ Base(v)
    BY <1>1, SendHdrStep DEF Step, Keeps
  <2>2. x \in SUBSET {"BINARY", "HEADERSENT"}
    BY <2>1 DEF Base, WorkSet, WiSess
  <2>3. wi_replyhdr(w) = Ok(u)
    <3>1. v \in WorkSet
      BY <2>1 DEF Base
    <3>2. [v EXCEPT !.se.flags = @ \cup {"HEADERSENT"}] = u
      BY <3>1 DEF WorkSet
    <3>3. QED
      BY <1>1, <3>2 DEF wi_replyhdr
  <2>9. "BINARY" \in x <=> "BINARY" \in v.se.flags
    OBVIOUS
  <2> HIDE DEF v, x
  <2>4. /\ Step(v, u) /\ u.se.files = v.se.files /\ u.se.state = v.se.state
        /\ u.se.sock = v.se.sock /\ u.file = v.file /\ u.se.flags = x
    BY <2>1, <2>2, <2>9, FlagsStep
  <2> HIDE DEF u
  <2>5. Base(u) /\ Step(w, u)
    BY <2>1, <2>4, StepTrans DEF Step, Keeps
  <2>6. Step(u, Ok(u)) /\ Ok(u).se = u.se /\ Ok(u).file = u.file
    BY <2>5, ErrStep
  <2>7. Step(w, Ok(u))
    BY <2>5, <2>6, StepTrans
  <2>8. QED
    BY <2>1, <2>3, <2>4, <2>6, <2>7, <2>9
<1>2. CASE ~CanSend(w)
  BY <1>2, ErrStep DEF wi_replyhdr
<1>3. QED
  BY <1>1, <1>2

----------------------------------------------------------------------------
(* Txbufs and forms *)

\* A step on the tables the session takes txbufs and forms from.
LEMMA PoolStep ==
    ASSUME NEW w, Base(w), NEW r \in WorkSet,
           r.file = w.file, r.co = w.co,
           r.se.files = w.se.files, r.se.sock = w.se.sock,
           r.se.state = w.se.state, r.se.flags = w.se.flags,
           r.se.tx \subseteq r.tx, r.tx \ r.se.tx = w.tx \ w.se.tx,
           r.se.forms \subseteq r.form, w.form \ w.se.forms \subseteq r.form \ r.se.forms
    PROVE  Step(w, r)
<1>1. Own(r) = Own(w)
  BY DEF Own
<1>2. Base(r)
  BY <1>1 DEF Base
<1>3. Frame(w, r)
  BY <1>1 DEF Frame
<1>4. Same(w, r)
  BY DEF Same
<1>5. QED
  BY <1>2, <1>3, <1>4 DEF Step, Keeps

\* The working set with other txbufs.
WithTx(w, a, b, e) == [se |-> [w.se EXCEPT !.tx = b], co |-> w.co, tx |-> a, form |-> w.form,
                       file |-> w.file, err |-> e]

TxErrExcept(w, a, b, e) == [w EXCEPT !.tx = a, !.se.tx = b, !.err = e]
TxExcept(w, a, b) == [w EXCEPT !.tx = a, !.se.tx = b]

LEMMA TxFields ==
    ASSUME NEW w \in WorkSet, NEW a, NEW b, NEW e
    PROVE  /\ TxErrExcept(w, a, b, e) = WithTx(w, a, b, e)
           /\ TxExcept(w, a, b) = WithTx(w, a, b, w.err)
<1> DEFINE v == [se |-> w.se, co |-> w.co, tx |-> a, form |-> w.form, file |-> w.file, err |-> w.err]
           u == WithTx(w, a, b, w.err)
<1>1. [w EXCEPT !.tx = a] = v
  BY DEF WorkSet
<1>2. [v EXCEPT !.se.tx = b] = u
  BY DEF WithTx
<1>3. [w EXCEPT !.tx = a, !.se.tx = b] = [[w EXCEPT !.tx = a] EXCEPT !.se.tx = b]
  BY DEF WorkSet
<1>4. [w EXCEPT !.tx = a, !.se.tx = b, !.err = e]
        = [[w EXCEPT !.tx = a, !.se.tx = b] EXCEPT !.err = e]
  BY DEF WorkSet
<1>5. [u EXCEPT !.err = e] = WithTx(w, a, b, e)
  BY DEF WithTx
<1> HIDE DEF u, v
<1>6. [w EXCEPT !.tx = a, !.se.tx = b] = u
  BY <1>1, <1>2, <1>3
<1>7. [w EXCEPT !.tx = a, !.se.tx = b, !.err = e] = [u EXCEPT !.err = e]
  BY <1>4, <1>6
<1>8. QED
  BY <1>5, <1>6, <1>7 DEF u, TxExcept, TxErrExcept

LEMMA TxStep ==
    ASSUME NEW w, Base(w), NEW a \in SUBSET TxSlot, NEW b \in SUBSET TxSlot, NEW e \in BOOLEAN,
           b \subseteq a, a \ b = w.tx \ w.se.tx,
           NEW r, r = WithTx(w, a, b, e)
    PROVE  /\ Step(w, r)
           /\ r.se.files = w.se.files /\ r.se.flags = w.se.flags /\ r.se.state = w.se.state
           /\ r.se.sock = w.se.sock /\ r.file = w.file /\ r.co = w.co /\ r.err = e
<1>1. w \in WorkSet /\ w.se.forms \subseteq w.form
  BY DEF Base
<1>2. /\ r.se = [w.se EXCEPT !.tx = b]
      /\ r.co = w.co /\ r.tx = a /\ r.form = w.form /\ r.file = w.file /\ r.err = e
  BY <1>1 DEF WithTx
<1>3. w.se \in WiSess /\ r.se \in WiSess
  BY <1>1, <1>2 DEF WorkSet, WiSess
<1>4. r \in WorkSet
  BY <1>1, <1>3 DEF WorkSet, WithTx
<1>5. /\ r.se.tx = b /\ r.se.forms = w.se.forms /\ r.se.files = w.se.files
      /\ r.se.sock = w.se.sock /\ r.se.state = w.se.state /\ r.se.flags = w.se.flags
  BY <1>2, <1>3 DEF WiSess
<1>6. Step(w, r)
  BY <1>1, <1>2, <1>4, <1>5, PoolStep
<1>7. QED
  BY <1>2, <1>5, <1>6

\* The counts compared when a table is searched are numbers.
LEMMA TableCount ==
    ASSUME NEW S \in SUBSET TxSlot
    PROVE  Cardinality(S) \in Nat
<1>1. IsFiniteSet(TxSlot)
  BY SlotsAssumption, FS_Interval DEF TxSlot
<1>2. QED
  BY <1>1, FS_Subset, FS_CardinalityType

LEMMA TxallocStep ==
    ASSUME NEW w, Base(w), NEW k \in Nat
    PROVE  /\ Step(w, wi_txalloc(w, k))
           /\ wi_txalloc(w, k).se.files = w.se.files /\ wi_txalloc(w, k).se.flags = w.se.flags
           /\ wi_txalloc(w, k).se.state = w.se.state /\ wi_txalloc(w, k).se.sock = w.se.sock
           /\ wi_txalloc(w, k).file = w.file /\ wi_txalloc(w, k).co = w.co
           /\ wi_txalloc(w, k).err \in BOOLEAN
<1> DEFINE free == TxSlot \ w.tx
           new  == FirstSlots(free, k)
           a    == w.tx \cup new
           b    == w.se.tx \cup new
           e    == Cardinality(free) < k
           r    == WithTx(w, a, b, e)
<1>1. w \in WorkSet /\ w.se.tx \subseteq w.tx /\ w.tx \subseteq TxSlot
  BY DEF Base, WorkSet
<1>2. new \subseteq free
  BY DEF FirstSlots
<1>3. e \in BOOLEAN
  BY TableCount
<1> HIDE DEF new
<1>4. a \in SUBSET TxSlot /\ b \in SUBSET TxSlot /\ b \subseteq a /\ a \ b = w.tx \ w.se.tx
  BY <1>1, <1>2
<1> HIDE DEF a, b, e
<1>5. wi_txalloc(w, k) = r
  <2>1. TxErrExcept(w, a, b, e) = r
    BY <1>1, TxFields DEF r
  <2>2. wi_txalloc(w, k) = TxErrExcept(w, a, b, e)
    BY DEF wi_txalloc, TxErrExcept, new, a, b, e
  <2>3. QED
    BY <2>1, <2>2
<1> HIDE DEF r
<1>6. /\ Step(w, r)
      /\ r.se.files = w.se.files /\ r.se.flags = w.se.flags /\ r.se.state = w.se.state
      /\ r.se.sock = w.se.sock /\ r.file = w.file /\ r.co = w.co /\ r.err = e
  <2>1. r = WithTx(w, a, b, e)
    BY DEF r
  <2> HIDE DEF r
  <2>2. QED
    BY <1>3, <1>4, <2>1, TxStep
<1>7. QED
  BY <1>3, <1>5, <1>6

LEMMA TxfreeStep ==
    ASSUME NEW w, Base(w), NEW S \in SUBSET w.se.tx
    PROVE  /\ Step(w, wi_txfree(w, S))
           /\ wi_txfree(w, S).se.files = w.se.files
           /\ wi_txfree(w, S).se.flags = w.se.flags
           /\ wi_txfree(w, S).se.state = w.se.state
           /\ wi_txfree(w, S).se.sock = w.se.sock
           /\ wi_txfree(w, S).file = w.file
<1> DEFINE a == w.tx \ S
           b == w.se.tx \ S
           r == WithTx(w, a, b, w.err)
<1>1. w \in WorkSet /\ w.se.tx \subseteq w.tx /\ w.tx \subseteq TxSlot /\ w.err \in BOOLEAN
  BY DEF Base, WorkSet
<1>2. a \in SUBSET TxSlot /\ b \in SUBSET TxSlot /\ b \subseteq a /\ a \ b = w.tx \ w.se.tx
  BY <1>1
<1> HIDE DEF a, b
<1>3. wi_txfree(w, S) = r
  <2>1. TxExcept(w, a, b) = r
    BY <1>1, TxFields DEF r
  <2>2. wi_txfree(w, S) = TxExcept(w, a, b)
    BY DEF wi_txfree, TxExcept, a, b
  <2>3. QED
    BY <2>1, <2>2
<1> HIDE DEF r
<1>4. /\ Step(w, r)
      /\ r.se.files = w.se.files /\ r.se.flags = w.se.flags /\ r.se.state = w.se.state
      /\ r.se.sock = w.se.sock /\ r.file = w.file /\ r.co = w.co
  <2>1. r = WithTx(w, a, b, w.err)
    BY DEF r
  <2> HIDE DEF r
  <2>2. QED
    BY <1>1, <1>2, <2>1, TxStep
<1>5. QED
  BY <1>3, <1>4

\* Nothing changes of what the session reads and sends.
Quiet(v, w) ==
    /\ Step(v, w)
    /\ w.se.files = v.se.files /\ w.se.flags = v.se.flags
    /\ w.se.state = v.se.state /\ w.se.sock = v.se.sock
    /\ w.file = v.file

LEMMA QuietTrans ==
    ASSUME NEW u, NEW v, NEW w, Quiet(u, v), Quiet(v, w)
    PROVE  Quiet(u, w)
BY StepTrans DEF Quiet

LEMMA QuietSelf ==
    ASSUME NEW w, Base(w)
    PROVE  Quiet(w, w)
BY KeepsSelf DEF Quiet, Step, Same

LEMMA QuietErr ==
    ASSUME NEW w, Base(w)
    PROVE  Quiet(w, Ok(w)) /\ Quiet(w, Fail(w))
BY ErrStep DEF Quiet

WithForm(w, a, b) == [se |-> [w.se EXCEPT !.forms = b], co |-> w.co, tx |-> w.tx, form |-> a,
                      file |-> w.file, err |-> w.err]

FormExcept(w, a, b) == [w EXCEPT !.form = a, !.se.forms = b]

LEMMA FormFields ==
    ASSUME NEW w \in WorkSet, NEW a, NEW b
    PROVE  FormExcept(w, a, b) = WithForm(w, a, b)
<1> DEFINE v == [se |-> w.se, co |-> w.co, tx |-> w.tx, form |-> a, file |-> w.file, err |-> w.err]
<1>1. [w EXCEPT !.form = a] = v
  BY DEF WorkSet
<1>2. [v EXCEPT !.se.forms = b] = WithForm(w, a, b)
  BY DEF WithForm
<1>3. [w EXCEPT !.form = a, !.se.forms = b] = [[w EXCEPT !.form = a] EXCEPT !.se.forms = b]
  BY DEF WorkSet
<1>4. QED
  BY <1>1, <1>2, <1>3 DEF FormExcept

LEMMA FormStep ==
    ASSUME NEW w, Base(w), NEW a \in SUBSET FormSlot, NEW b \in SUBSET FormSlot,
           b \subseteq a, w.form \ w.se.forms \subseteq a \ b,
           NEW r, r = WithForm(w, a, b)
    PROVE  Quiet(w, r)
<1>1. w \in WorkSet /\ w.se.tx \subseteq w.tx
  BY DEF Base
<1>2. /\ r.se = [w.se EXCEPT !.forms = b]
      /\ r.co = w.co /\ r.tx = w.tx /\ r.form = a /\ r.file = w.file /\ r.err = w.err
  BY <1>1 DEF WithForm
<1>3. w.se \in WiSess /\ r.se \in WiSess
  BY <1>1, <1>2 DEF WorkSet, WiSess
<1>4. r \in WorkSet
  BY <1>1, <1>3 DEF WorkSet, WithForm
<1>5. /\ r.se.tx = w.se.tx /\ r.se.forms = b /\ r.se.files = w.se.files
      /\ r.se.sock = w.se.sock /\ r.se.state = w.se.state /\ r.se.flags = w.se.flags
  BY <1>2, <1>3 DEF WiSess
<1>6. Step(w, r)
  BY <1>1, <1>2, <1>4, <1>5, PoolStep
<1>7. QED
  BY <1>2, <1>5, <1>6 DEF Quiet

\* A form slot is lost to the table.
LEMMA FormLostStep ==
    ASSUME NEW w, Base(w), NEW f \in FormSlot, f \notin w.form,
           NEW r, r = [w EXCEPT !.form = @ \cup {f}]
    PROVE  Quiet(w, r)
<1>1. w \in WorkSet /\ w.se.tx \subseteq w.tx /\ w.se.forms \subseteq w.form
  BY DEF Base
<1>2. /\ r.se = w.se
      /\ r.co = w.co /\ r.tx = w.tx /\ r.form = w.form \cup {f}
      /\ r.file = w.file /\ r.err = w.err
  BY <1>1 DEF WorkSet
<1>3. r \in WorkSet
  BY <1>1, <1>2 DEF WorkSet
<1>4. Step(w, r)
  BY <1>1, <1>2, <1>3, PoolStep
<1>5. QED
  BY <1>2, <1>4 DEF Quiet

LEMMA BuildformStep ==
    ASSUME NEW w, Base(w), NEW pairs
    PROVE  Quiet(w, wi_buildform(w, pairs))
<1> DEFINE free == FormSlot \ w.form
           f    == FirstSlot(free)
           a    == w.form \cup {f}
           b    == w.se.forms \cup {f}
           u    == [w EXCEPT !.form = @ \cup {f}]
           v    == FormExcept(w, a, b)
<1>1. w \in WorkSet /\ w.form \subseteq FormSlot /\ w.se.forms \subseteq w.form
  BY DEF Base, WorkSet
<1>2. CASE free = {}
  BY <1>2, QuietErr DEF wi_buildform
<1>3. CASE free # {}
  <2>1. f \in free
    BY <1>3, FirstSlotIn, SlotTypes
  <2>2. wi_buildform(w, pairs) \in {Fail(u), Ok(v)}
    BY <1>3 DEF wi_buildform, FormExcept
  <2>3. Quiet(w, u)
    <3> HIDE DEF f
    <3>1. QED
      BY <2>1, FormLostStep
  <2>4. Quiet(w, v)
    <3>1. a \in SUBSET FormSlot /\ b \in SUBSET FormSlot
          /\ b \subseteq a /\ w.form \ w.se.forms \subseteq a \ b
      BY <1>1, <2>1
    <3> HIDE DEF a, b
    <3>2. v = WithForm(w, a, b)
      BY <1>1, FormFields
    <3>3. QED
      BY <3>1, <3>2, FormStep
  <2> HIDE DEF u, v
  <2>5. Quiet(u, Fail(u)) /\ Quiet(v, Ok(v))
    BY <2>3, <2>4, QuietErr DEF Quiet, Step, Keeps
  <2>6. QED
    BY <2>2, <2>3, <2>4, <2>5, QuietTrans
<1>4. QED
  BY <1>2, <1>3

----------------------------------------------------------------------------
(* Files *)

WithFiles(w, fl, q) == [se |-> [w.se EXCEPT !.files = q], co |-> w.co, tx |-> w.tx,
                        form |-> w.form, file |-> fl, err |-> w.err]

FileExcept(w, f, x, q) == [w EXCEPT !.file[f] = x, !.se.files = q]

LEMMA FileFields ==
    ASSUME NEW w \in WorkSet, NEW f \in FileSlot, NEW x, NEW q
    PROVE  FileExcept(w, f, x, q) = WithFiles(w, [w.file EXCEPT ![f] = x], q)
<1> DEFINE fl == [w.file EXCEPT ![f] = x]
           v  == [se |-> w.se, co |-> w.co, tx |-> w.tx, form |-> w.form, file |-> fl, err |-> w.err]
<1>1. [w EXCEPT !.file[f] = x] = v
  BY DEF WorkSet
<1> HIDE DEF fl
<1>2. [v EXCEPT !.se.files = q] = WithFiles(w, fl, q)
  BY DEF WithFiles
<1>3. [w EXCEPT !.file[f] = x, !.se.files = q] = [[w EXCEPT !.file[f] = x] EXCEPT !.se.files = q]
  BY DEF WorkSet
<1>4. QED
  BY <1>1, <1>2, <1>3 DEF FileExcept, fl

\* All but the files is as it was.
FilesOnly(v, w) ==
    /\ w.se.flags = v.se.flags /\ w.se.state = v.se.state /\ w.se.sock = v.se.sock
    /\ w.se.tx = v.se.tx /\ w.co = v.co /\ w.tx = v.tx

\* The files fl and the list q are ones the session may turn to.
FilesFit(w, fl, q) ==
    /\ fl \in [FileSlot -> WiFile]
    /\ q \in Seq(FileSlot)
    /\ Distinct(q)
    /\ \A i \in 1 .. Len(q) : fl[q[i]].kind # "free"
    /\ \A f \in FileSlot : w.file[f] # FreeFile /\ f \notin Own(w) =>
          fl[f] = w.file[f] /\ \A i \in 1 .. Len(q) : q[i] # f

LEMMA FilesKeep ==
    ASSUME NEW w, Base(w), NEW fl, NEW q, FilesFit(w, fl, q),
           NEW r, r = WithFiles(w, fl, q)
    PROVE  /\ Keeps(w, r) /\ FilesOnly(w, r)
           /\ r.se.files = q /\ r.file = fl /\ r.err = w.err
<1>1. w \in WorkSet
  BY DEF Base
<1>2. /\ r.se = [w.se EXCEPT !.files = q]
      /\ r.co = w.co /\ r.tx = w.tx /\ r.form = w.form /\ r.file = fl /\ r.err = w.err
  BY DEF WithFiles
<1>3. w.se \in WiSess /\ r.se \in WiSess
  <2>1. w.se \in WiSess /\ q \in Seq(FileSlot)
    BY <1>1 DEF WorkSet, FilesFit
  <2>2. [w.se EXCEPT !.files = q] \in WiSess
    BY <2>1, SMTT(20) DEF WiSess
  <2>3. QED
    BY <1>2, <2>1, <2>2
<1>4. r \in WorkSet
  BY <1>1, <1>3 DEF WorkSet, WithFiles, FilesFit
<1>5. /\ r.se.tx = w.se.tx /\ r.se.forms = w.se.forms /\ r.se.files = q
      /\ r.se.sock = w.se.sock /\ r.se.state = w.se.state /\ r.se.flags = w.se.flags
  BY <1>2, <1>3 DEF WiSess
<1>6. Base(r)
  BY <1>2, <1>4, <1>5 DEF Base, Own, FilesFit
<1>7. Frame(w, r)
  BY <1>2, <1>5 DEF Frame, Own, FilesFit
<1>8. QED
  BY <1>2, <1>5, <1>6, <1>7 DEF Keeps, FilesOnly

LEMMA PushFront ==
    ASSUME NEW S, NEW s \in Seq(S), NEW x \in S
    PROVE  /\ <<x>> \o s \in Seq(S) /\ <<x>> \o s # <<>>
           /\ Len(<<x>> \o s) = Len(s) + 1
           /\ Head(<<x>> \o s) = x /\ Tail(<<x>> \o s) = s
           /\ \A i \in 1 .. Len(<<x>> \o s) :
                 (<<x>> \o s)[i] = IF i = 1 THEN x ELSE s[i - 1]
OBVIOUS

LEMMA TailElements ==
    ASSUME NEW S, NEW s \in Seq(S), s # <<>>
    PROVE  /\ Tail(s) \in Seq(S) /\ Len(Tail(s)) = Len(s) - 1
           /\ Head(s) = s[1] /\ s[1] \in S /\ Len(s) \in Nat \ {0}
           /\ \A i \in 1 .. Len(s) - 1 : Tail(s)[i] = s[i + 1]
OBVIOUS

\* The files below the one at the head.
FileRest(w) == Tail(w.se.files)

\* From w to r a file was opened, at the head of the list.
Opened(w, r, kind) ==
    /\ Keeps(w, r) /\ FilesOnly(w, r)
    /\ r.err = FALSE /\ kind \in FileKind
    /\ r.se.files # <<>> /\ FileRest(r) = w.se.files
    /\ r.file[FileHead(r)].kind = kind

\* A file that could be opened is at the head of the session's files, and was no one's.
LEMMA FopenKeeps ==
    ASSUME NEW w, Base(w), NEW kind, NEW left \in Nat,
           NEW r, r = wi_fopen(w, kind, left)
    PROVE  r = Fail(w) \/ Opened(w, r, kind)
<1> DEFINE free == {f \in FileSlot : w.file[f] = FreeFile}
           f    == FirstSlot(free)
           x    == [kind |-> kind, left |-> left]
           s    == w.se.files
           q    == <<f>> \o s
           fl   == [w.file EXCEPT ![f] = x]
           v    == FileExcept(w, f, x, q)
<1>1. w \in WorkSet /\ s \in Seq(FileSlot) /\ w.file \in [FileSlot -> WiFile] /\ Distinct(s)
  BY DEF Base, WorkSet, WiSess
<1>2. CASE kind \notin FileKind \/ free = {}
  BY <1>2 DEF wi_fopen
<1>3. CASE kind \in FileKind /\ free # {}
  <2>1. f \in free
    BY <1>3, FirstSlotIn, SlotTypes
  <2>2. f \in FileSlot /\ w.file[f] = FreeFile /\ f \notin Own(w)
    <3>1. f \in FileSlot /\ w.file[f] = FreeFile
      BY <2>1
    <3>2. w.file[f].kind = "free"
      BY <3>1 DEF FreeFile
    <3>3. QED
      BY <3>1, <3>2 DEF Base
  <2>3. r = Ok(v)
    BY <1>3 DEF wi_fopen, FileExcept
  <2> HIDE DEF f
  <2>4. x \in WiFile /\ x.kind = kind /\ kind # "free"
    BY <1>3 DEF WiFile, FileKind
  <2> HIDE DEF x
  <2>5. fl \in [FileSlot -> WiFile] /\ fl[f] = x
        /\ \A g \in FileSlot \ {f} : fl[g] = w.file[g]
    BY <1>1, <2>2, <2>4
  <2>6. /\ q \in Seq(FileSlot) /\ q # <<>>
        /\ Len(q) = Len(s) + 1 /\ Head(q) = f /\ Tail(q) = s
        /\ \A i \in 1 .. Len(q) : q[i] = IF i = 1 THEN f ELSE s[i - 1]
    BY <1>1, <2>2, PushFront
  <2>7. v = WithFiles(w, fl, q)
    <3> HIDE DEF q
    <3>1. QED
      BY <1>1, <2>2, FileFields
  <2> HIDE DEF q, fl, v
  <2>8. Len(s) \in Nat /\ \A i \in 1 .. Len(s) : s[i] \in FileSlot /\ s[i] # f
                                                /\ w.file[s[i]].kind # "free"
    BY <1>1, <2>2, LenProperties DEF Own, Base
  <2>9. \A i \in 1 .. Len(q) : i = 1 \/ i - 1 \in 1 .. Len(s)
    BY <2>6, <2>8
  <2>10. q[1] = f /\ \A i \in 1 .. Len(q) : i = 1 \/ (i - 1 \in 1 .. Len(s) /\ q[i] = s[i - 1])
    BY <2>6, <2>8, <2>9
  <2>11. Distinct(q)
    <3> SUFFICES ASSUME NEW i \in 1 .. Len(q), NEW j \in 1 .. Len(q), q[i] = q[j]
                 PROVE  i = j
      BY DEF Distinct
    <3>1. CASE i = 1 \/ j = 1
      BY <2>8, <2>10, <3>1
    <3>2. CASE i # 1 /\ j # 1
      <4>1. i - 1 \in 1 .. Len(s) /\ j - 1 \in 1 .. Len(s) /\ s[i - 1] = s[j - 1]
        BY <2>10, <3>2
      <4>2. i - 1 = j - 1
        BY <1>1, <4>1 DEF Distinct
      <4>3. QED
        BY <2>6, <2>8, <4>2
    <3>3. QED
      BY <3>1, <3>2
  <2>12. \A i \in 1 .. Len(q) : fl[q[i]].kind # "free"
    <3> SUFFICES ASSUME NEW i \in 1 .. Len(q)
                 PROVE  fl[q[i]].kind # "free"
      OBVIOUS
    <3>1. CASE i = 1
      BY <2>4, <2>5, <2>10, <3>1
    <3>2. CASE i # 1
      <4>1. q[i] = s[i - 1] /\ i - 1 \in 1 .. Len(s)
        BY <2>10, <3>2
      <4>2. fl[s[i - 1]] = w.file[s[i - 1]] /\ w.file[s[i - 1]].kind # "free"
        BY <2>5, <2>8, <4>1
      <4>3. QED
        BY <4>1, <4>2
    <3>3. QED
      BY <3>1, <3>2
  <2>13. /\ Keeps(w, v) /\ FilesOnly(w, v)
         /\ v.se.files = q /\ v.file = fl /\ v.err = w.err
    <3>1. \A g \in FileSlot : w.file[g] # FreeFile /\ g \notin Own(w) =>
             fl[g] = w.file[g] /\ \A i \in 1 .. Len(q) : q[i] # g
      <4> SUFFICES ASSUME NEW g \in FileSlot, w.file[g] # FreeFile, g \notin Own(w)
                   PROVE  fl[g] = w.file[g] /\ \A i \in 1 .. Len(q) : q[i] # g
        OBVIOUS
      <4>1. g # f /\ fl[g] = w.file[g]
        BY <2>2, <2>5
      <4>2. \A i \in 1 .. Len(s) : s[i] # g
        BY DEF Own
      <4>3. QED
        BY <2>10, <4>1, <4>2
    <3>2. QED
      <4>1. FilesFit(w, fl, q)
        BY <2>5, <2>6, <2>11, <2>12, <3>1, Zenon DEF FilesFit
      <4>2. QED
        BY <2>7, <4>1, FilesKeep
  <2>14. Quiet(v, r) /\ r.co = v.co /\ r.se = v.se /\ r.err = FALSE /\ r.tx = v.tx
    <3>1. Base(v) /\ v \in WorkSet
      BY <2>13 DEF Keeps, Base
    <3>2. r.tx = v.tx
      BY <2>3, <3>1 DEF Ok, WorkSet
    <3>3. QED
      BY <2>3, <3>1, <3>2, QuietErr, ErrStep
  <2>15. Keeps(w, r)
    BY <2>13, <2>14, KeepsTrans DEF Quiet, Step
  <2>16. r.file = fl /\ r.se.files = q
    BY <2>13, <2>14 DEF Quiet
  <2>17. QED
    BY <1>3, <2>4, <2>5, <2>6, <2>13, <2>14, <2>15, <2>16 DEF FilesOnly, FileHead, FileRest, Opened
<1>4. QED
  BY <1>2, <1>3

LEMMA FcloseKeeps ==
    ASSUME NEW w, Base(w), w.se.files # <<>>,
           NEW r, r = wi_fclose(w)
    PROVE  /\ Keeps(w, r) /\ FilesOnly(w, r)
           /\ r.se.files = FileRest(w) /\ r.err = w.err
           /\ \A g \in FileSlot \ {FileHead(w)} : r.file[g] = w.file[g]
<1> DEFINE f  == FileHead(w)
           s  == w.se.files
           q  == Tail(s)
           fl == [w.file EXCEPT ![f] = FreeFile]
<1>1. w \in WorkSet /\ s \in Seq(FileSlot) /\ w.file \in [FileSlot -> WiFile] /\ Distinct(s)
  BY DEF Base, WorkSet, WiSess
<1>2. /\ q \in Seq(FileSlot) /\ Len(q) = Len(s) - 1 /\ Len(s) \in Nat \ {0}
      /\ \A i \in 1 .. Len(s) - 1 : q[i] = s[i + 1]
  BY <1>1, TailElements
<1>3. f \in FileSlot /\ f \in Own(w) /\ f = s[1]
  BY OwnInTable
<1>4. r = FileExcept(w, f, FreeFile, q)
  BY DEF wi_fclose, FileExcept
<1> HIDE DEF f, q
<1>5. r = WithFiles(w, fl, q)
  BY <1>1, <1>3, <1>4, FileFields
<1>6. FreeFile \in WiFile
  BY DEF FreeFile, WiFile
<1>7. fl \in [FileSlot -> WiFile] /\ \A g \in FileSlot \ {f} : fl[g] = w.file[g]
  BY <1>1, <1>3, <1>6
<1> HIDE DEF fl
<1>8. \A i \in 1 .. Len(s) : s[i] \in FileSlot /\ w.file[s[i]].kind # "free"
  BY <1>1, LenProperties DEF Own, Base
<1>9. \A i \in 1 .. Len(q) : i \in 1 .. Len(s) - 1 /\ i + 1 \in 1 .. Len(s) /\ i + 1 # 1
  BY <1>2
<1>10. Distinct(q)
  BY <1>1, <1>2, <1>9 DEF Distinct
<1>11. \A i \in 1 .. Len(q) : fl[q[i]].kind # "free"
  <2> SUFFICES ASSUME NEW i \in 1 .. Len(q)
               PROVE  fl[q[i]].kind # "free"
    OBVIOUS
  <2>1. q[i] = s[i + 1] /\ i + 1 \in 1 .. Len(s) /\ 1 \in 1 .. Len(s) /\ i + 1 # 1
    BY <1>2, <1>9
  <2>2. q[i] # f
    BY <1>1, <1>3, <2>1 DEF Distinct
  <2>3. QED
    BY <1>7, <1>8, <2>1, <2>2
<1>12. \A g \in FileSlot : w.file[g] # FreeFile /\ g \notin Own(w) =>
          fl[g] = w.file[g] /\ \A i \in 1 .. Len(q) : q[i] # g
  <2> SUFFICES ASSUME NEW g \in FileSlot, w.file[g] # FreeFile, g \notin Own(w)
               PROVE  fl[g] = w.file[g] /\ \A i \in 1 .. Len(q) : q[i] # g
    OBVIOUS
  <2>1. g # f /\ fl[g] = w.file[g]
    BY <1>3, <1>7
  <2>2. \A i \in 1 .. Len(s) : s[i] # g
    BY DEF Own
  <2>3. QED
    BY <1>2, <1>9, <2>1, <2>2
<1>13. /\ Keeps(w, r) /\ FilesOnly(w, r)
       /\ r.se.files = q /\ r.file = fl /\ r.err = w.err
  <2>1. FilesFit(w, fl, q)
    BY <1>2, <1>7, <1>10, <1>11, <1>12, Zenon DEF FilesFit
  <2>2. QED
    BY <1>5, <2>1, FilesKeep
<1>14. QED
  BY <1>7, <1>13 DEF q, f, FileRest

\* Blocks are read from a file of the session's.
LEMMA LeftKeeps ==
    ASSUME NEW w, Base(w), NEW f \in Own(w), NEW n \in Nat,
           NEW r, r = [w EXCEPT !.file[f].left = n]
    PROVE  /\ Step(w, r) /\ r.se = w.se /\ r.co = w.co /\ r.tx = w.tx
           /\ \A g \in FileSlot : r.file[g].kind = w.file[g].kind
<1>1. w \in WorkSet /\ w.file \in [FileSlot -> WiFile] /\ f \in FileSlot
  BY OwnInTable DEF Base, WorkSet
<1>2. /\ r.se = w.se /\ r.co = w.co /\ r.tx = w.tx /\ r.form = w.form /\ r.err = w.err
      /\ r.file = [w.file EXCEPT ![f].left = n]
  BY <1>1 DEF WorkSet
<1>3. /\ r.file \in [FileSlot -> WiFile]
      /\ \A g \in FileSlot : r.file[g].kind = w.file[g].kind
      /\ \A g \in FileSlot \ {f} : r.file[g] = w.file[g]
  BY <1>1, <1>2 DEF WiFile
<1>4. r \in WorkSet
  BY <1>1, <1>2, <1>3 DEF WorkSet
<1>5. Own(r) = Own(w) /\ Own(w) \subseteq FileSlot
  BY <1>2, OwnInTable DEF Own
<1>6. Base(r)
  BY <1>2, <1>3, <1>4, <1>5 DEF Base
<1>7. Frame(w, r)
  BY <1>2, <1>3, <1>5 DEF Frame
<1>8. Same(w, r)
  BY <1>2, <1>3 DEF Same
<1>9. QED
  BY <1>2, <1>3, <1>6, <1>7, <1>8 DEF Step, Keeps

----------------------------------------------------------------------------
(* Sending *)

\* The ways a handler's last line may end it.
LEMMA LastLine ==
    ASSUME NEW v, NEW w, Step(v, w)
    PROVE  /\ Base(w)
           /\ Step(v, Ok(w)) /\ Step(v, Fail(w)) /\ Step(v, wi_txdone(w)) /\ Step(v, wi_senderr(w))
<1>1. Base(w)
  BY DEF Step, Keeps
<1>2. Step(w, Ok(w)) /\ Step(w, Fail(w)) /\ Step(w, wi_txdone(w)) /\ Step(w, wi_senderr(w))
  BY <1>1, ErrStep, EndingStep
<1>3. QED
  BY <1>1, <1>2, StepTrans

LEMMA MovebinaryStep ==
    ASSUME NEW w0, Base(w0), w0.se.sock # NoSock => w0.se.files # <<>>
    PROVE  Step(w0, wi_movebinary(w0))
<1> DEFINE w    == IF "HEADERSENT" \in w0.se.flags THEN w0 ELSE wi_replyhdr(w0)
           f    == FileHead(w)
           sent == Min2(w.file[f].left, w.co.room)
           n    == w.file[f].left - sent
           u    == [w EXCEPT !.co.room = @ - sent]
           v    == [w EXCEPT !.co.room = @ - sent, !.file[f].left = @ - sent]
           z    == [u EXCEPT !.file[f].left = n]
<1>1. /\ Step(w0, w) /\ Base(w)
      /\ w.se.files = w0.se.files /\ w.se.sock = w0.se.sock
  BY ReplyHdrStep, QuietSelf DEF Quiet, Step, Keeps
<1>2. wi_movebinary(w0) =
         IF w.se.sock = NoSock \/ w.co.peer = "reset" THEN Fail(w)
         ELSE IF sent = w.file[f].left THEN wi_txdone(wi_fclose(u)) ELSE Ok(v)
  BY DEF wi_movebinary
<1> HIDE DEF w
<1>3. CASE w.se.sock = NoSock \/ w.co.peer = "reset"
  BY <1>1, <1>2, <1>3, LastLine
<1>4. CASE ~(w.se.sock = NoSock \/ w.co.peer = "reset")
  <2>1. /\ w \in WorkSet /\ w.se.files # <<>>
        /\ f \in FileSlot /\ f \in Own(w)
        /\ w.file[f].left \in Nat /\ w.co.room \in Nat
    <3>1. w \in WorkSet /\ w.se.files # <<>> /\ f \in FileSlot /\ f \in Own(w)
      BY <1>1, <1>4, OwnInTable DEF Base
    <3>2. w.file[f].left \in Nat /\ w.co.room \in Nat
      BY <3>1, UnitsAssumption DEF WorkSet, WiFile, Connection
    <3>3. QED
      BY <3>1, <3>2
  <2>2. sent \in Nat /\ sent <= w.co.room /\ sent <= w.file[f].left /\ n \in Nat
    <3>1. sent \in Nat /\ sent <= w.co.room /\ sent <= w.file[f].left
      <4> HIDE DEF f
      <4>1. QED
        BY <2>1, Min2Range
    <3>2. QED
      BY <2>1, <3>1
  <2>3. v = z
    <3> HIDE DEF f, sent
    <3>1. v = [[w EXCEPT !.co.room = @ - sent] EXCEPT !.file[f].left = n]
      BY <2>1 DEF WorkSet
    <3>2. QED
      BY <3>1
  <2> HIDE DEF sent, f
  <2>4. Step(w, u) /\ u.se = w.se /\ u.file = w.file
    BY <1>1, <2>2, RoomStep
  <2> HIDE DEF n, u, v
  <2>5. Base(u) /\ u.se.files # <<>> /\ Own(u) = Own(w)
    BY <2>1, <2>4 DEF Step, Keeps, Own
  <2>6. Step(u, z)
    BY <2>1, <2>2, <2>5, LeftKeeps
  <2>7. Step(w0, Ok(v))
    BY <1>1, <2>3, <2>4, <2>6, StepTrans, LastLine
  <2>8. Step(w0, wi_txdone(wi_fclose(u)))
    <3>1. Keeps(u, wi_fclose(u))
      BY <2>5, FcloseKeeps
    <3>2. Keeps(wi_fclose(u), wi_txdone(wi_fclose(u))) /\ Over(wi_txdone(wi_fclose(u)))
      BY <3>1, EndingStep DEF Keeps, Step
    <3>3. Keeps(w0, u)
      BY <1>1, <2>4, StepTrans DEF Step
    <3>4. QED
      BY <3>1, <3>2, <3>3, KeepsTrans DEF Step
  <2>9. QED
    BY <1>2, <1>4, <2>7, <2>8
<1>5. QED
  BY <1>3, <1>4

LEMMA SendChainStep ==
    ASSUME NEW w, Base(w)
    PROVE  Step(w, SendChain(w))
<1> DEFINE sent == Min2(Cardinality(w.se.tx), w.co.room)
           x    == IF sent > 0 THEN 0 ELSE w.se.idle
           S    == FirstSlots(w.se.tx, sent)
           t    == [w EXCEPT !.co.room = @ - sent]
           u    == SetIdle(t, x)
           w2   == wi_txfree(u, S)
<1>1. /\ w \in WorkSet /\ w.se \in WiSess /\ w.se.tx \subseteq TxSlot
      /\ w.se.idle \in 0 .. TMO + 1 /\ w.co.room \in Nat
  BY UnitsAssumption DEF Base, WorkSet, WiSess, Connection
<1>2. sent \in Nat /\ sent <= w.co.room
  BY <1>1, TableCount, Min2Range
<1> HIDE DEF sent
<1>3. x \in 0 .. TMO + 1
  BY <1>1, <1>2, UnitsAssumption
<1>4. S \subseteq w.se.tx
  BY DEF FirstSlots
<1> HIDE DEF x, S
<1>5. [w EXCEPT !.co.room = @ - sent, !.se.idle = x] = u
  BY <1>1 DEF WorkSet, SetIdle
<1>6. SendChain(w) \in {wi_txdone(w), Fail(w), wi_txdone(w2), Ok(w2)}
  <2>1. wi_txfree([w EXCEPT !.co.room = @ - sent, !.se.idle = x], S) = w2
    BY <1>5
  <2>2. wi_txfree([w EXCEPT !.co.room = @ - sent, !.se.idle = IF sent > 0 THEN 0 ELSE @], S) = w2
    BY <2>1 DEF x
  <2>3. QED
    BY <2>2 DEF SendChain, sent, S
<1>7. Step(w, t) /\ t.se = w.se
  BY <1>2, RoomStep
<1> HIDE DEF t
<1>8. Step(w, u) /\ u.se.tx = w.se.tx /\ Base(u)
  <2>0. 0 \in 0 .. RXBUF
    BY UnitsAssumption
  <2>1. Base(t) /\ t \in WorkSet
    BY <1>7 DEF Step, Keeps, Base
  <2>2. Step(t, u)
    BY <1>1, <1>3, <2>1, IdleStep, <2>0
  <2>3. u.se.tx = t.se.tx
    BY <2>1 DEF WorkSet, WiSess, SetIdle
  <2>4. QED
    BY <1>7, <2>2, <2>3, StepTrans, LastLine
<1> HIDE DEF u
<1>9. Step(u, w2)
  BY <1>4, <1>8, TxfreeStep
<1> HIDE DEF w2
<1>10. Step(w, w2) /\ Step(w, w)
  BY <1>8, <1>9, StepTrans, QuietSelf DEF Quiet
<1>11. QED
  BY <1>6, <1>10, LastLine

\* What is sent is the text queued or the binary file open.
LEMMA SockwriteStep ==
    ASSUME NEW w, Base(w), Ready(w)
    PROVE  Step(w, wi_sockwrite(w)) /\ Ready(wi_sockwrite(w))
<1>1. "BINARY" \in w.se.flags => Step(w, wi_sockwrite(w))
  BY MovebinaryStep DEF wi_sockwrite, Ready
<1>2. ASSUME "BINARY" \notin w.se.flags
      PROVE  Step(w, wi_sockwrite(w))
  <2> DEFINE h == wi_replyhdr(w)
  <2>1. Step(w, h) /\ Base(h)
    BY ReplyHdrStep DEF Step, Keeps
  <2>2. wi_sockwrite(w) \in {SendChain(w), Fail(h), SendChain(h)}
    BY <1>2 DEF wi_sockwrite
  <2> HIDE DEF h
  <2>3. QED
    BY <2>1, <2>2, SendChainStep, StepTrans, LastLine
<1>3. Step(w, wi_sockwrite(w))
  BY <1>1, <1>2
<1>4. QED
  BY <1>3, StepReady

----------------------------------------------------------------------------
(* Reading *)

\* What a handler must leave: the resources in order, and what the next visit relies on.
Good(v, w) == Keeps(v, w) /\ Ready(w)

LEMMA GoodTrans ==
    ASSUME NEW u, NEW v, NEW w, Keeps(u, v), Good(v, w)
    PROVE  Good(u, w)
BY KeepsTrans DEF Good

LEMMA OverGood ==
    ASSUME NEW v, NEW w, Keeps(v, w), Over(w)
    PROVE  Good(v, w)
BY DEF Good, Over, Ready

LEMMA QuietGood ==
    ASSUME NEW u, NEW v, NEW w, Good(u, v), Quiet(v, w)
    PROVE  Good(u, w)
<1>1. Ready(w)
  BY StepReady DEF Good, Keeps, Quiet
<1>2. QED
  BY <1>1, KeepsTrans DEF Good, Quiet, Step

LEMMA GoodEnd ==
    ASSUME NEW v, NEW w, Good(v, w)
    PROVE  Base(w) /\ Ready(w) /\ Good(v, Ok(w)) /\ Good(v, Fail(w))
<1>1. Base(w) /\ Ready(w)
  BY DEF Good, Keeps
<1>2. QED
  BY <1>1, QuietErr, QuietGood

LEMMA RequestTypes ==
    ASSUME NEW w, Base(w)
    PROVE  /\ w.co.req.need \in Nat /\ w.co.req.ssi \in Nat
           /\ w.co.req.need \in Nat \ {0}
<1>1. w.co.req \in Request
  BY DEF Base, WorkSet, Connection
<1>2. QED
  BY <1>1 DEF Request

\* The state of a session is set, or its flags.
LEMMA SetStateKeeps ==
    ASSUME NEW w, Base(w), NEW st \in State, w.se.sock # NoSock \/ st = "ENDING",
           NEW r, r = SetState(w, st)
    PROVE  /\ Keeps(w, r)
           /\ r.se.state = st /\ r.se.flags = w.se.flags
           /\ r.se.files = w.se.files /\ r.se.sock = w.se.sock /\ r.file = w.file
           /\ r.co = w.co /\ r.err = w.err
<1>1. w \in WorkSet /\ w.se \in WiSess
  BY DEF Base, WorkSet
<1>2. /\ r.se = [w.se EXCEPT !.state = st]
      /\ r.co = w.co /\ r.tx = w.tx /\ r.form = w.form /\ r.file = w.file /\ r.err = w.err
  BY <1>1 DEF WorkSet, SetState
<1>3. r.se \in WiSess
  BY <1>1, <1>2, SMTT(20) DEF WiSess
<1>4. r \in WorkSet
  BY <1>1, <1>2, <1>3 DEF WorkSet, SetState
<1>5. /\ r.se.tx = w.se.tx /\ r.se.forms = w.se.forms /\ r.se.files = w.se.files
      /\ r.se.sock = w.se.sock /\ r.se.state = st /\ r.se.flags = w.se.flags
  BY <1>1, <1>2 DEF WiSess
<1>6. Keeps(w, r)
  <2>1. r.co = w.co /\ r.tx = w.tx /\ r.form = w.form /\ r.file = w.file
    BY <1>2
  <2>2. r.se.sock = NoSock => r.se.state = "ENDING"
    BY <1>5 DEF Base
  <2>3. QED
    BY <1>4, <1>5, <2>1, <2>2, PlainStep
<1>7. QED
  BY <1>2, <1>5, <1>6

LEMMA SetFlagsKeeps ==
    ASSUME NEW w, Base(w), NEW x \in SUBSET {"BINARY", "HEADERSENT"},
           NEW r, r = SetFlags(w, x)
    PROVE  /\ Keeps(w, r)
           /\ r.se.state = w.se.state /\ r.se.flags = x
           /\ r.se.files = w.se.files /\ r.se.sock = w.se.sock /\ r.file = w.file
           /\ r.co = w.co /\ r.err = w.err
<1>1. w \in WorkSet /\ w.se \in WiSess
  BY DEF Base, WorkSet
<1>2. /\ r.se = [w.se EXCEPT !.flags = x]
      /\ r.co = w.co /\ r.tx = w.tx /\ r.form = w.form /\ r.file = w.file /\ r.err = w.err
  BY <1>1 DEF WorkSet, SetFlags
<1>3. r.se \in WiSess
  BY <1>1, <1>2, SMTT(20) DEF WiSess
<1>4. r \in WorkSet
  BY <1>1, <1>2, <1>3 DEF WorkSet, SetFlags
<1>5. /\ r.se.tx = w.se.tx /\ r.se.forms = w.se.forms /\ r.se.files = w.se.files
      /\ r.se.sock = w.se.sock /\ r.se.state = w.se.state /\ r.se.flags = x
  BY <1>1, <1>2 DEF WiSess
<1>6. Keeps(w, r)
  <2>1. r.se.sock = NoSock => r.se.state = "ENDING"
    BY <1>5 DEF Base
  <2>2. r.co = w.co /\ r.tx = w.tx /\ r.form = w.form /\ r.file = w.file
    BY <1>2
  <2>3. QED
    BY <1>4, <1>5, <2>1, <2>2, PlainStep
<1>7. QED
  BY <1>2, <1>5, <1>6

\* The reply is started.
LEMMA StartSendGood ==
    ASSUME NEW w, Base(w), w.se.sock # NoSock,
           "BINARY" \in w.se.flags => w.se.files # <<>> /\ w.file[FileHead(w)].kind = "BINARY"
    PROVE  Good(w, StartSend(w))
<1> DEFINE u == SetState(w, "SENDDATA")
<1>1. w.se.flags \in SUBSET {"BINARY", "HEADERSENT"} /\ "SENDDATA" \in State
  BY DEF Base, WorkSet, WiSess, State
<1>2. /\ Keeps(w, u) /\ u.se.state = "SENDDATA" /\ u.se.flags = w.se.flags
      /\ u.se.files = w.se.files /\ u.file = w.file
  BY <1>1, SetStateKeeps
<1>3. StartSend(w) = wi_sockwrite(u)
  BY DEF StartSend, SetState
<1> HIDE DEF u
<1>4. Base(u) /\ Ready(u)
  BY <1>2 DEF Keeps, Ready, FileHead
<1>5. Good(u, wi_sockwrite(u))
  BY <1>4, SockwriteStep DEF Good, Step
<1>6. QED
  BY <1>2, <1>3, <1>5, GoodTrans

LEMMA BadformGood ==
    ASSUME NEW w, Base(w), Ready(w)
    PROVE  Good(w, wi_badform(w))
<1> DEFINE u == IF w.se.state = "ENDING" \/ w.se.tx # {} THEN w ELSE wi_txalloc(w, 1)
<1>1. Step(w, u)
  BY TxallocStep, QuietSelf DEF Quiet
<1>2. wi_badform(w) = wi_sockwrite(u)
  BY DEF wi_badform
<1> HIDE DEF u
<1>3. Base(u) /\ Ready(u)
  BY <1>1, StepReady DEF Step, Keeps
<1>4. Good(u, wi_sockwrite(u))
  BY <1>3, SockwriteStep DEF Good, Step
<1>5. QED
  BY <1>1, <1>2, <1>4, GoodTrans DEF Step

\* A form routine names another file, or the session is over.
LEMMA RedirectKeeps ==
    ASSUME NEW w, Base(w), w.se.files # <<>>, w.se.sock # NoSock, "BINARY" \notin w.se.flags,
           NEW r, r = wi_redirect(w)
    PROVE  /\ Keeps(w, r)
           /\ \/ r.err = TRUE /\ Over(r)
              \/ /\ r.err = FALSE /\ r.se.files # <<>>
                 /\ "BINARY" \notin r.se.flags /\ r.se.sock = w.se.sock
<1> DEFINE u  == SetIdle(w, 0)
           w1 == wi_fclose(u)
           w2 == wi_fopen(w1, "TEXT", 1)
           v  == SetState(w2, "CONTENT")
           x  == w2.se.flags \ {"HEADERSENT"}
           z  == SetFlags(v, x)
<1>1. 0 \in 0 .. TMO + 1 /\ 0 \in 0 .. RXBUF
  BY UnitsAssumption
<1>2. /\ Step(w, u) /\ u.se.files = w.se.files /\ u.se.flags = w.se.flags
      /\ u.se.sock = w.se.sock
  BY <1>1, IdleStep
<1>3. wi_redirect(w) = IF w2.err \/ w.co.req.form = "missing" THEN Fail(wi_senderr(w1))
                       ELSE [w2 EXCEPT !.se.state = "CONTENT", !.se.flags = @ \ {"HEADERSENT"}]
  BY DEF wi_redirect, SetIdle
<1> HIDE DEF u
<1>4. Base(u) /\ u.se.files # <<>>
  BY <1>2 DEF Step, Keeps
<1>5. Keeps(u, w1) /\ FilesOnly(u, w1)
  BY <1>4, FcloseKeeps
<1>6. Keeps(w, w1) /\ Base(w1) /\ w1.se.flags = w.se.flags /\ w1.se.sock = w.se.sock
  BY <1>2, <1>5, KeepsTrans DEF Step, Keeps, FilesOnly
<1> HIDE DEF w1
<1>7. CASE w2.err \/ w.co.req.form = "missing"
  <2>1. Keeps(w1, wi_senderr(w1)) /\ Over(wi_senderr(w1)) /\ Base(wi_senderr(w1))
    BY <1>6, EndingStep DEF Step, Keeps
  <2>2. /\ Keeps(wi_senderr(w1), Fail(wi_senderr(w1)))
        /\ Fail(wi_senderr(w1)).se = wi_senderr(w1).se /\ Fail(wi_senderr(w1)).err = TRUE
    BY <2>1, ErrStep DEF Step
  <2>3. QED
    BY <1>3, <1>6, <1>7, <2>1, <2>2, KeepsTrans DEF Over
<1>8. CASE ~(w2.err \/ w.co.req.form = "missing")
  <2>1. w2 # Fail(w1)
    BY <1>6, <1>8, ErrStep
  <2>2. /\ Keeps(w1, w2) /\ FilesOnly(w1, w2) /\ w2.err = FALSE /\ w2.se.files # <<>>
    <3> DEFINE kind == "TEXT"
               left == 1
    <3>1. left \in Nat /\ w2 = wi_fopen(w1, kind, left)
      OBVIOUS
    <3> HIDE DEF w2, kind, left
    <3>3. w2 = Fail(w1) \/ Opened(w1, w2, kind)
      BY <1>6, <3>1, FopenKeeps
    <3>4. QED
      BY <2>1, <3>3 DEF Opened
  <2>3. Keeps(w, w2) /\ Base(w2) /\ w2.se.flags = w.se.flags /\ w2.se.sock = w.se.sock
    BY <1>6, <2>2, KeepsTrans DEF Keeps, FilesOnly
  <2> HIDE DEF w2
  <2>4. /\ w2 \in WorkSet /\ w2.se.flags \in SUBSET {"BINARY", "HEADERSENT"}
        /\ "CONTENT" \in State
    BY <2>3 DEF Base, WorkSet, WiSess, State
  <2>5. /\ Keeps(w2, v) /\ v.se.files = w2.se.files /\ v.se.sock = w2.se.sock
        /\ v.err = w2.err /\ v.se.flags = w2.se.flags
    BY <2>3, <2>4, SetStateKeeps
  <2>6. [w2 EXCEPT !.se.state = "CONTENT", !.se.flags = @ \ {"HEADERSENT"}] = z
    BY <2>4 DEF WorkSet, WiSess, SetState, SetFlags
  <2> HIDE DEF v
  <2>7. x \in SUBSET {"BINARY", "HEADERSENT"} /\ "BINARY" \notin x
    BY <2>3, <2>4
  <2> HIDE DEF x
  <2>8. Base(v) /\ v.se.sock # NoSock /\ v.se.state \in State
    BY <2>3, <2>5 DEF Keeps, Base, WorkSet, WiSess
  <2>9. /\ Keeps(v, z) /\ z.se.files = v.se.files /\ z.se.sock = v.se.sock
        /\ z.err = v.err /\ z.se.flags = x
    BY <2>7, <2>8, SetFlagsKeeps
  <2>10. Keeps(w, z)
    BY <2>3, <2>5, <2>9, KeepsTrans
  <2>11. z.se.files # <<>> /\ z.se.sock = w.se.sock /\ z.err = FALSE /\ "BINARY" \notin z.se.flags
    BY <2>2, <2>3, <2>5, <2>7, <2>9
  <2>12. QED
    BY <1>3, <1>8, <2>2, <2>6, <2>10, <2>11
<1>9. QED
  BY <1>7, <1>8

\* An included file is read and closed, or left open above the page.
LEMMA SsiKeeps ==
    ASSUME NEW w, Base(w), w.se.files # <<>>,
           NEW r, r = wi_ssi(w)
    PROVE  /\ Keeps(w, r)
           /\ r.se.files # <<>> /\ r.se.flags = w.se.flags
           /\ r.se.state = w.se.state /\ r.se.sock = w.se.sock
<1> DEFINE kind == "TEXT"
           left == 0
           k    == w.co.req.ssi
           w0   == IF w.co.req.args = "none" THEN w ELSE wi_buildform(w, w.co.req.args)
           w1   == wi_fopen(w0, kind, left)
           w2   == wi_txalloc(w1, k)
<1>1. r = IF w1.err THEN w1 ELSE IF w2.err THEN w2 ELSE wi_fclose(w2)
  BY DEF wi_ssi
<1>0. /\ Keeps(w, w0) /\ Base(w0) /\ w0.se.files = w.se.files
      /\ w0.se.flags = w.se.flags /\ w0.se.state = w.se.state /\ w0.se.sock = w.se.sock
  BY BuildformStep, KeepsSelf DEF Quiet, Step, Keeps
<1>2. left \in Nat /\ k \in Nat /\ w1 = wi_fopen(w0, kind, left)
  BY RequestTypes
<1> HIDE DEF kind, left, k, w0, w1
<1>3. w1 = Fail(w0) \/ Opened(w0, w1, kind)
  BY <1>0, <1>2, FopenKeeps
<1>4. CASE w1 = Fail(w0)
  <2>1. Step(w0, Fail(w0)) /\ Fail(w0).se = w0.se /\ Fail(w0).err = TRUE
    BY <1>0, ErrStep
  <2>2. r = Fail(w0)
    BY <1>1, <1>4, <2>1
  <2>3. QED
    BY <1>0, <2>1, <2>2, KeepsTrans DEF Step
<1>5. CASE Opened(w0, w1, kind)
  <2>1. /\ Keeps(w, w1) /\ Base(w1) /\ w1.err = FALSE
        /\ w1.se.files # <<>> /\ FileRest(w1) = w.se.files
        /\ w1.se.flags = w.se.flags /\ w1.se.state = w.se.state /\ w1.se.sock = w.se.sock
    BY <1>0, <1>5, KeepsTrans DEF Opened, Keeps, FilesOnly
  <2>2. /\ Step(w1, w2) /\ w2.se.files = w1.se.files /\ w2.se.flags = w1.se.flags
        /\ w2.se.state = w1.se.state /\ w2.se.sock = w1.se.sock
    BY <1>2, <2>1, TxallocStep
  <2> HIDE DEF w2
  <2>3. Keeps(w, w2) /\ Base(w2) /\ w2.se.files # <<>> /\ FileRest(w2) = w.se.files
    BY <2>1, <2>2, KeepsTrans DEF Step, Keeps, FileRest
  <2>4. /\ Keeps(w2, wi_fclose(w2)) /\ FilesOnly(w2, wi_fclose(w2))
        /\ wi_fclose(w2).se.files = w.se.files
    BY <2>3, FcloseKeeps
  <2>5. Keeps(w, wi_fclose(w2))
    BY <2>3, <2>4, KeepsTrans
  <2>6. QED
    BY <1>1, <2>1, <2>2, <2>3, <2>4, <2>5 DEF FilesOnly
<1>6. QED
  BY <1>3, <1>4, <1>5

LEMMA ReadTextGood ==
    ASSUME NEW w, Base(w), w.se.files # <<>>, w.se.sock # NoSock, "BINARY" \notin w.se.flags
    PROVE  Good(w, ReadText(w))
<1> DEFINE f    == FileHead(w)
           n    == 0
           x    == 0
           k    == w.co.req.need
           eof  == wi_fclose(w)
           t    == [w EXCEPT !.file[f].left = n]
           u    == SetIdle(t, x)
           page == wi_txalloc(u, k)
           incl == IF w.co.req.ssi = 0 THEN page ELSE wi_ssi(page)
<1>1. f \in Own(w) /\ n \in Nat /\ x \in 0 .. TMO + 1 /\ x \in 0 .. RXBUF /\ k \in Nat
  BY OwnInTable, RequestTypes, UnitsAssumption
<1>2. [w EXCEPT !.file[f].left = 0, !.se.idle = 0] = u
  <2> HIDE DEF f
  <2>1. w \in WorkSet
    BY DEF Base
  <2>2. QED
    BY <2>1 DEF WorkSet, SetIdle
<1>3. ReadText(w) =
        IF w.file[f].left = 0
        THEN IF eof.se.files # <<>> THEN Ok(eof) ELSE StartSend(eof)
        ELSE IF page.err THEN Fail(page)
        ELSE IF FileHead(incl) # f THEN Ok(incl)
        ELSE StartSend(wi_fclose(incl))
  <2> HIDE DEF u
  <2>1. QED
    BY <1>2 DEF ReadText
<1> HIDE DEF f, n, x, k
\* A session with text files is one that may go on reading, or may be sent.
<1>4. ASSUME NEW v, Keeps(w, v), v.se.files # <<>>, v.se.flags = w.se.flags
      PROVE  Good(w, v)
  BY <1>4 DEF Good, Ready
<1>5. ASSUME NEW v, Keeps(w, v), v.se.flags = w.se.flags, v.se.sock = w.se.sock
      PROVE  Good(w, StartSend(v))
  BY <1>5, StartSendGood, GoodTrans DEF Keeps
<1>6. Keeps(w, eof) /\ eof.se.flags = w.se.flags /\ eof.se.sock = w.se.sock
  BY FcloseKeeps DEF FilesOnly
<1> HIDE DEF eof
<1>7. eof.se.files # <<>> => Good(w, Ok(eof))
  BY <1>4, <1>6, GoodEnd
<1>8. Good(w, StartSend(eof))
  BY <1>5, <1>6
<1>9. Step(w, t) /\ t.se = w.se
  BY <1>1, LeftKeeps
<1> HIDE DEF t
<1>10. /\ Step(t, u) /\ u.se.files = t.se.files /\ u.se.flags = t.se.flags /\ u.se.sock = t.se.sock
  <2>1. Base(t) /\ u = SetIdle(t, x)
    BY <1>9, LastLine
  <2>2. QED
    BY <1>1, <2>1, IdleStep
<1> HIDE DEF u
<1>11. /\ Step(u, page) /\ page.se.files = u.se.files /\ page.se.flags = u.se.flags
       /\ page.se.sock = u.se.sock
  BY <1>1, <1>10, LastLine, TxallocStep
<1> HIDE DEF page
<1>12. /\ Keeps(w, page) /\ Base(page) /\ page.se.files # <<>> /\ page.se.flags = w.se.flags
       /\ page.se.sock = w.se.sock
  BY <1>9, <1>10, <1>11, StepTrans DEF Step, Keeps
<1>13. Good(w, Fail(page))
  BY <1>4, <1>12, GoodEnd
<1>14. /\ Keeps(w, incl) /\ incl.se.files # <<>> /\ incl.se.flags = w.se.flags
       /\ incl.se.sock = w.se.sock
  BY <1>12, SsiKeeps, KeepsTrans
<1> HIDE DEF incl
<1>15. Good(w, Ok(incl))
  BY <1>4, <1>14, GoodEnd
<1>16. Good(w, StartSend(wi_fclose(incl)))
  <2>1. Keeps(incl, wi_fclose(incl)) /\ FilesOnly(incl, wi_fclose(incl))
    BY <1>14, FcloseKeeps DEF Keeps
  <2>2. QED
    BY <1>5, <1>14, <2>1, KeepsTrans DEF FilesOnly
<1>17. QED
  BY <1>3, <1>7, <1>8, <1>13, <1>15, <1>16

LEMMA ReadFormGood ==
    ASSUME NEW w, Base(w), Ready(w), w.se.files # <<>>, w.se.sock # NoSock,
           "BINARY" \notin w.se.flags
    PROVE  Good(w, ReadForm(w))
<1> DEFINE r == wi_redirect(w)
           k == w.co.req.need
           printed == wi_txalloc(w, k)
<1>1. ReadForm(w) \in {Fail(w), Fail(wi_badform(w)), StartSend(wi_fclose(printed)),
                        IF r.err THEN Fail(wi_badform(r)) ELSE ReadText(r)}
  BY DEF ReadForm
<1>2. Good(w, Fail(wi_badform(w))) /\ Good(w, Fail(w))
  BY BadformGood, GoodEnd, KeepsSelf DEF Good
<1>7. Good(w, StartSend(wi_fclose(printed)))
  <2>1. k \in Nat
    BY RequestTypes
  <2> HIDE DEF k
  <2>2. /\ Keeps(w, printed) /\ Base(printed) /\ printed.se.files # <<>>
        /\ printed.se.flags = w.se.flags /\ printed.se.sock = w.se.sock
    BY <2>1, TxallocStep DEF Step, Keeps
  <2> HIDE DEF printed
  <2>3. /\ Keeps(w, wi_fclose(printed)) /\ Base(wi_fclose(printed))
        /\ wi_fclose(printed).se.flags = w.se.flags /\ wi_fclose(printed).se.sock = w.se.sock
    BY <2>2, FcloseKeeps, KeepsTrans DEF Keeps, FilesOnly
  <2>4. QED
    BY <2>3, StartSendGood, GoodTrans
<1> HIDE DEF k, printed
<1>3. /\ Keeps(w, r)
      /\ \/ r.err = TRUE /\ Over(r)
         \/ /\ r.err = FALSE /\ r.se.files # <<>>
            /\ "BINARY" \notin r.se.flags /\ r.se.sock = w.se.sock
  BY RedirectKeeps
<1> HIDE DEF r
<1>4. CASE r.err = TRUE /\ Over(r)
  <2>1. Base(r) /\ Ready(r)
    BY <1>3, <1>4, OverGood DEF Good, Keeps
  <2>2. Good(w, wi_badform(r))
    BY <1>3, <2>1, BadformGood, GoodTrans
  <2>3. QED
    BY <1>1, <1>2, <1>4, <1>7, <2>2, GoodEnd
<1>5. CASE r.err = FALSE /\ r.se.files # <<>> /\ "BINARY" \notin r.se.flags /\ r.se.sock = w.se.sock
  <2>1. Good(w, ReadText(r))
    BY <1>3, <1>5, ReadTextGood, GoodTrans DEF Keeps
  <2>2. QED
    BY <1>1, <1>2, <1>5, <1>7, <2>1
<1>6. QED
  BY <1>3, <1>4, <1>5

LEMMA ReadfileGood ==
    ASSUME NEW w, Base(w), Ready(w), w.se.files # <<>>, w.se.sock # NoSock
    PROVE  Good(w, wi_readfile(w))
<1> DEFINE kind == w.file[FileHead(w)].kind
           x    == 0
           st   == "PUSHING"
           u    == SetIdle(w, x)
           v    == SetState(w, st)
<1>1. x \in 0 .. TMO + 1 /\ x \in 0 .. RXBUF /\ st \in State
  BY UnitsAssumption DEF State
<1>2. wi_readfile(w) = CASE kind = "FORM"   -> ReadForm(w)
                         [] kind = "PUSH"   -> IF w.co.req.form = "null" THEN Fail(v) ELSE Ok(v)
                         [] kind = "BINARY" -> StartSend(u)
                         [] OTHER           -> ReadText(w)
  BY DEF wi_readfile, SetIdle, SetState
<1>3. kind # "BINARY" => "BINARY" \notin w.se.flags
  BY DEF Ready
<1> HIDE DEF kind
<1>4. CASE kind = "FORM"
  BY <1>2, <1>3, <1>4, ReadFormGood
<1>5. CASE kind = "PUSH"
  <2>1. Keeps(w, v) /\ v.se.state = "PUSHING" /\ v.se.flags = w.se.flags
    <3>1. v = SetState(w, st)
      OBVIOUS
    <3> HIDE DEF v
    <3>2. Keeps(w, v) /\ v.se.state = st /\ v.se.flags = w.se.flags
      BY <1>1, <3>1, SetStateKeeps
    <3>3. QED
      BY <3>2
  <2> HIDE DEF v
  <2>2. Good(w, v)
    BY <1>3, <1>5, <2>1 DEF Good, Ready
  <2>3. QED
    BY <1>2, <1>5, <2>2, GoodEnd
<1>6. CASE kind = "BINARY"
  <2>1. /\ Step(w, u) /\ u.se.files = w.se.files /\ u.file = w.file /\ u.se.sock = w.se.sock
    <3>1. u = SetIdle(w, x)
      OBVIOUS
    <3> HIDE DEF u, x
    <3>2. QED
      BY <1>1, <3>1, IdleStep
  <2> HIDE DEF u
  <2>2. u.file[FileHead(u)].kind = "BINARY"
    BY <1>6, <2>1 DEF FileHead, kind
  <2>3. Good(w, StartSend(u))
    BY <2>1, <2>2, LastLine, StartSendGood, GoodTrans DEF Step
  <2>4. QED
    BY <1>2, <1>6, <2>3
<1>7. CASE kind \notin {"FORM", "PUSH", "BINARY"}
  BY <1>2, <1>3, <1>7, ReadTextGood
<1>8. QED
  BY <1>4, <1>5, <1>6, <1>7

----------------------------------------------------------------------------
(* Answering *)

LEMMA AnswerFileGood ==
    ASSUME NEW w, Base(w), w.se.sock # NoSock
    PROVE  Good(w, AnswerFile(w))
<1> DEFINE kind == w.co.req.kind
           left == IF kind = "BINARY" THEN w.co.req.need ELSE 1
           w1   == wi_fopen(w, kind, left)
           x    == IF kind = "BINARY" THEN {"BINARY"} ELSE {}
           w2   == SetFlags(w1, x)
           rx   == SetState(w2, "POSTRX")
           tx   == SetState(w2, "CONTENT")
<1>1. AnswerFile(w) = IF w1.err THEN Fail(wi_senderr(w))
                      ELSE IF ~w.co.req.auth THEN Fail(wi_fclose(wi_senderr(w1)))
                      ELSE IF w.co.req.cmd = "POST" THEN rx ELSE wi_readfile(tx)
  BY DEF AnswerFile, SetFlags, SetState
<1>2. left \in Nat /\ w1 = wi_fopen(w, kind, left)
  BY RequestTypes
<1>3. x \in SUBSET {"BINARY", "HEADERSENT"} /\ ("BINARY" \in x => kind = "BINARY")
  OBVIOUS
<1> HIDE DEF kind, left, w1, x
<1>4. Keeps(w, wi_senderr(w)) /\ Over(wi_senderr(w))
  BY EndingStep DEF Step
<1>5. Good(w, Fail(wi_senderr(w)))
  BY <1>4, OverGood, GoodEnd
<1>6. w1 = Fail(w) \/ Opened(w, w1, kind)
  BY <1>2, FopenKeeps
<1>7. CASE w1 = Fail(w)
  BY <1>1, <1>5, <1>7, ErrStep
<1>8. CASE Opened(w, w1, kind)
  <2>1. /\ Keeps(w, w1) /\ Base(w1) /\ w1.err = FALSE /\ w1.se.files # <<>>
        /\ w1.file[FileHead(w1)].kind = kind /\ w1.se.sock # NoSock
    BY <1>8 DEF Opened, Keeps, FilesOnly
  <2>2. Good(w, Fail(wi_fclose(wi_senderr(w1))))
    <3> DEFINE v == wi_senderr(w1)
    <3>1. Keeps(w1, v) /\ Over(v) /\ v.se.files # <<>> /\ Base(v)
      BY <2>1, EndingStep DEF Step, Keeps
    <3> HIDE DEF v
    <3>2. Keeps(v, wi_fclose(v)) /\ FilesOnly(v, wi_fclose(v))
      BY <3>1, FcloseKeeps
    <3>3. Keeps(w, wi_fclose(v)) /\ Over(wi_fclose(v))
      BY <2>1, <3>1, <3>2, KeepsTrans DEF FilesOnly, Over
    <3>4. QED
      BY <3>3, OverGood, GoodEnd DEF v
  <2>3. /\ Keeps(w1, w2) /\ w2.se.flags = x
        /\ w2.se.files = w1.se.files /\ w2.se.sock = w1.se.sock /\ w2.file = w1.file
    BY <1>3, <2>1, SetFlagsKeeps
  <2> HIDE DEF w2
  <2>4. /\ Keeps(w, w2) /\ Base(w2) /\ w2.se.flags = x /\ w2.se.files # <<>>
        /\ w2.se.sock # NoSock /\ w2.file[FileHead(w2)].kind = kind
    BY <2>1, <2>3, KeepsTrans DEF Keeps, FileHead
  <2>5. ASSUME NEW st \in State, NEW v, v = SetState(w2, st)
        PROVE  Good(w, v) /\ v.se.files # <<>> /\ v.se.sock # NoSock /\ Base(v) /\ Ready(v)
    <3>1. /\ Keeps(w2, v) /\ v.se.flags = x /\ v.se.files = w2.se.files
          /\ v.se.sock = w2.se.sock /\ v.file = w2.file
      BY <2>4, <2>5, SetStateKeeps
    <3>2. Keeps(w, v) /\ Base(v)
      BY <2>4, <3>1, KeepsTrans DEF Keeps
    <3>3. Ready(v)
      BY <1>3, <2>4, <3>1 DEF Ready, FileHead
    <3>4. QED
      BY <2>4, <3>1, <3>2, <3>3 DEF Good
  <2>6. Good(w, rx)
    BY <2>5, "POSTRX" \in State DEF State
  <2>7. Good(w, tx) /\ tx.se.files # <<>> /\ tx.se.sock # NoSock /\ Base(tx) /\ Ready(tx)
    BY <2>5, "CONTENT" \in State DEF State
  <2> HIDE DEF rx, tx
  <2>8. Good(w, wi_readfile(tx))
    BY <2>7, ReadfileGood, GoodTrans DEF Good
  <2>9. QED
    BY <1>1, <2>1, <2>2, <2>6, <2>8
<1>9. QED
  BY <1>6, <1>7, <1>8

LEMMA ParseheaderGood ==
    ASSUME NEW w, Base(w), Ready(w), w.se.sock # NoSock
    PROVE  Good(w, wi_parseheader(w))
<1> DEFINE w1 == IF w.co.req.cmd = "GET" /\ w.co.req.pairs # "none"
                 THEN wi_buildform(w, w.co.req.pairs) ELSE Ok(w)
<1>1. wi_parseheader(w) \in {Ok(w), Fail(wi_senderr(w)), Fail(wi_senderr(w1)), AnswerFile(w1)}
  BY DEF wi_parseheader
<1>2. Quiet(w, w1)
  BY BuildformStep, QuietErr
<1> HIDE DEF w1
<1>3. Keeps(w, w) /\ Good(w, w)
  BY KeepsSelf DEF Good
<1>4. Keeps(w, w1) /\ Base(w1) /\ w1.se.sock # NoSock
  BY <1>2 DEF Quiet, Step, Keeps
<1>5. ASSUME NEW v, Keeps(w, v)
      PROVE  Good(w, Fail(wi_senderr(v)))
  <2>1. Keeps(v, wi_senderr(v)) /\ Over(wi_senderr(v))
    BY <1>5, EndingStep DEF Step, Keeps
  <2>2. QED
    BY <1>5, <2>1, KeepsTrans, OverGood, GoodEnd
<1>6. Good(w, AnswerFile(w1))
  BY <1>4, AnswerFileGood, GoodTrans
<1>7. Good(w, Ok(w)) /\ Good(w, Fail(wi_senderr(w))) /\ Good(w, Fail(wi_senderr(w1)))
  BY <1>3, <1>4, <1>5, GoodEnd
<1>8. QED
  BY <1>1, <1>6, <1>7

LEMMA RecvQuiet ==
    ASSUME NEW w, Base(w)
    PROVE  Quiet(w, Recv(w))
<1> DEFINE y == w.se.rx + Received(w)
           x == 0
<1>1. w \in WorkSet /\ w.se.rx \in 0 .. RXBUF /\ w.co.sent \in Nat
  BY DEF Base, WorkSet, WiSess, Connection
<1>2. y \in 0 .. RXBUF /\ x \in 0 .. TMO + 1
  <2>1. y = Min2(w.co.sent, RXBUF)
    <3>1. Min2(w.co.sent, RXBUF) \in Nat
      BY <1>1, UnitsAssumption, Min2Range
    <3>2. QED
      BY <1>1, <3>1, UnitsAssumption DEF Received
  <2>2. QED
    <3> HIDE DEF y
    <3>1. Min2(w.co.sent, RXBUF) \in Nat /\ Min2(w.co.sent, RXBUF) <= RXBUF
      BY <1>1, UnitsAssumption, Min2Range
    <3>2. QED
      BY <2>1, <3>1, UnitsAssumption
<1>3. Recv(w) = SetRx(w, y, x)
  BY DEF Recv, SetRx
<1> HIDE DEF x, y
<1>4. QED
  BY <1>2, <1>3, IdleStep DEF Quiet

\* wi_delsess gives back all but the files below the head, which stay open and unowned.
Freed(w, r) ==
    /\ r \in WorkSet /\ r.se = NewSess(NoSock)
    /\ r.tx = w.tx \ w.se.tx /\ r.form = w.form \ w.se.forms
    /\ \A f \in FileSlot : w.file[f] # FreeFile /\ f \notin Own(w) => r.file[f] = w.file[f]

LEMMA ReleaseFreed ==
    ASSUME NEW w, Base(w)
    PROVE  Freed(w, Release(w))
<1> DEFINE w1 == IF w.se.files = <<>> THEN w ELSE wi_fclose(w)
           v  == CloseSocket(w1)
           w2 == wi_txfree(v, w.se.tx)
           r  == Release(w)
<1>1. Keeps(w, w1) /\ Base(w1) /\ w1.se.tx = w.se.tx /\ w1.tx = w.tx
  BY FcloseKeeps, KeepsSelf DEF Keeps, FilesOnly
<1>2. w1.se.forms = w.se.forms /\ w1.form = w.form
  <2>1. w \in WorkSet
    BY DEF Base
  <2>2. QED
    BY <2>1 DEF wi_fclose, WorkSet, WiSess
<1>3. r = [w2 EXCEPT !.form = @ \ w.se.forms, !.se = NewSess(NoSock)]
  BY DEF Release
<1> HIDE DEF w1
<1>4. Keeps(w1, v) /\ Base(v) /\ v.tx = w1.tx /\ v.form = w1.form /\ v.file = w1.file
  BY <1>1, CloseSocketStep DEF Step, Keeps
<1>5. v.se.tx = w1.se.tx
  BY <1>1 DEF CloseSocket, Base, WorkSet, WiSess
<1> HIDE DEF v
<1>6. /\ Step(v, w2) /\ w2.file = v.file
  BY <1>1, <1>4, <1>5, TxfreeStep
<1>7. w2.tx = v.tx \ w.se.tx /\ w2.form = v.form
  <2>1. v \in WorkSet
    BY <1>4 DEF Base
  <2>2. QED
    BY <2>1 DEF wi_txfree, WorkSet, WiSess
<1>8. w2 \in WorkSet
  BY <1>6 DEF Step, Keeps, Base
<1> HIDE DEF w2, r
<1>9. NewSess(NoSock) \in WiSess
  BY UnitsAssumption DEF NewSess, WiSess, State
<1>10. /\ r.se = NewSess(NoSock) /\ r.form = w2.form \ w.se.forms
       /\ r.tx = w2.tx /\ r.file = w2.file /\ r \in WorkSet
  BY <1>3, <1>8, <1>9 DEF WorkSet
<1>11. \A f \in FileSlot : w.file[f] # FreeFile /\ f \notin Own(w) => w1.file[f] = w.file[f]
  BY <1>1 DEF Keeps, Frame
<1>12. QED
  BY <1>1, <1>2, <1>4, <1>6, <1>7, <1>10, <1>11 DEF Freed, r

----------------------------------------------------------------------------
(* The reply: the handlers once more, one by one *)

\* No byte of the reply was sent; the header was, once.
Fresh(w) == "HEADERSENT" \notin w.se.flags /\ w.co.hdrs = 0 /\ w.co.room = ROOM
Sent(w)  == "HEADERSENT" \in w.se.flags /\ w.co.hdrs = 1

\* The client takes nothing, not even a header.
Deaf(w) == w.co.peer = "reset" \/ ROOM = 0

\* The reply was begun, unless its client can be sent nothing.
Begun(w) == Sent(w) \/ Deaf(w)

Loaded(w) == w.se.tx # {} \/ "BINARY" \in w.se.flags

TextOnly(w) == \A f \in Own(w) : w.file[f].kind = "TEXT"

\* The file asked for is open, and nothing was read from it.
Waiting(w) ==
    /\ Len(w.se.files) = 1 /\ w.se.tx = {}
    /\ w.file[FileHead(w)].kind = "BINARY" => "BINARY" \in w.se.flags

\* The form's routine fails whenever it is called.
BadForm(w) ==
    /\ Len(w.se.files) = 1
    /\ w.file[FileHead(w)].kind = "FORM" /\ w.co.req.form = "error"

\* A reply is a header that is sent once, and text that waits for it.
Whole(w) ==
    /\ w.co.hdrs <= 1
    /\ "BINARY" \in w.se.flags => w.se.tx = {}
    /\ w.se.sock = NoSock => w.se.tx = {}
    /\ w.se.sock # NoSock => Fresh(w) \/ Sent(w)

\* What the next visit may rely on.
Replying(w) ==
    /\ Whole(w)
    /\ w.se.sock # NoSock =>
          /\ w.se.state = "HEADER" =>
                Fresh(w) /\ w.se.tx = {} /\ w.se.files = <<>> /\ w.se.flags = {}
          /\ w.se.state = "POSTRX" => Fresh(w) /\ Waiting(w)
          /\ w.se.state = "CONTENT" =>
                (Fresh(w) /\ (TextOnly(w) \/ Waiting(w))) \/ BadForm(w)
          /\ w.se.state = "SENDDATA" => Begun(w) /\ (Loaded(w) \/ Deaf(w))

\* The files open in the table that the session does not have.
Lost(w) == {f \in FileSlot : w.file[f] # FreeFile} \ Own(w)

\* From v to w the client is the same, the clock went on or was reset, and no slot was lost.
Even(v, w) ==
    /\ w.se.sock \in {v.se.sock, NoSock}
    /\ w.se.sock # NoSock => w.co.req = v.co.req /\ w.co.peer = v.co.peer
    /\ w.se.idle \in {v.se.idle, 0}
    /\ w.form \ w.se.forms = v.form \ v.se.forms
    /\ Lost(w) = Lost(v)

\* The list of files grew only if something was read.
More(v, w) ==
    /\ Even(v, w)
    /\ w.se.idle = 0 \/ Len(w.se.files) <= Len(v.se.files)

\* The same, but for a form slot that is lost where malformed pairs are made a form.
Parsed(v, w) ==
    /\ w.se.sock \in {v.se.sock, NoSock}
    /\ w.se.sock # NoSock => w.co.req = v.co.req /\ w.co.peer = v.co.peer
    /\ w.se.idle \in {v.se.idle, 0}
    /\ Lost(w) = Lost(v)
    /\ \/ w.form \ w.se.forms = v.form \ v.se.forms
       \/ /\ BadPairs(v.co.req)
          /\ \E f \in FormSlot \ (v.form \ v.se.forms) :
                w.form \ w.se.forms = (v.form \ v.se.forms) \cup {f}

\* The same, and the list of files grew only if something was read.
Went(v, w) ==
    /\ Parsed(v, w)
    /\ w.se.idle = 0 \/ Len(w.se.files) <= Len(v.se.files)

\* The tables but that of the txbufs, and the clock, are as they were.
Held(v, w) ==
    /\ w.se.files = v.se.files /\ w.file = v.file
    /\ w.se.forms = v.se.forms /\ w.form = v.form
    /\ w.se.idle = v.se.idle

LEMMA HeldMore ==
    ASSUME NEW v, Base(v), NEW w, Held(v, w),
           w.se.sock \in {v.se.sock, NoSock},
           w.se.sock # NoSock => w.co.req = v.co.req /\ w.co.peer = v.co.peer
    PROVE  More(v, w)
<1>1. Len(v.se.files) \in Nat
  BY OwnInTable
<1>2. Lost(w) = Lost(v)
  BY DEF Held, Lost, Own
<1>3. QED
  BY <1>1, <1>2 DEF Held, More, Even

LEMMA MoreSelf ==
    ASSUME NEW w, Base(w)
    PROVE  More(w, w)
BY HeldMore DEF Held

LEMMA EvenTrans ==
    ASSUME NEW u, NEW v, NEW w, Even(u, v), Even(v, w)
    PROVE  Even(u, w)
BY DEF Even

LEMMA MoreTrans ==
    ASSUME NEW u, Base(u), NEW v, Base(v), NEW w, Base(w), More(u, v), More(v, w)
    PROVE  More(u, w)
<1>1. Len(u.se.files) \in Nat /\ Len(v.se.files) \in Nat /\ Len(w.se.files) \in Nat
  BY OwnInTable
<1>2. w.se.idle = 0 \/ (v.se.idle # 0 /\ Len(w.se.files) <= Len(v.se.files))
  BY DEF More, Even
<1>3. v.se.idle = 0 \/ Len(v.se.files) <= Len(u.se.files)
  BY DEF More
<1>4. Even(u, w)
  BY EvenTrans DEF More
<1>5. QED
  BY <1>1, <1>2, <1>3, <1>4, SMTT(30) DEF More

\* Once the clock was reset, the list may grow.
LEMMA ActiveMore ==
    ASSUME NEW u, NEW v, NEW w, Even(u, v), v.se.idle = 0, Even(v, w)
    PROVE  More(u, w)
BY DEF More, Even

LEMMA ParsedSelf ==
    ASSUME NEW w
    PROVE  Parsed(w, w)
BY DEF Parsed

LEMMA EvenParsed ==
    ASSUME NEW u, NEW v, NEW w, Parsed(u, v), Even(v, w)
    PROVE  Parsed(u, w)
<1>1. /\ w.se.sock \in {u.se.sock, NoSock}
      /\ w.se.sock # NoSock => w.co.req = u.co.req /\ w.co.peer = u.co.peer
      /\ w.se.idle \in {u.se.idle, 0}
      /\ Lost(w) = Lost(u)
      /\ w.form \ w.se.forms = v.form \ v.se.forms
  BY DEF Even, Parsed
<1>2. QED
  BY <1>1 DEF Parsed

LEMMA ParsedEven ==
    ASSUME NEW u, NEW v, NEW w, Even(u, v), v.se.sock # NoSock, Parsed(v, w)
    PROVE  Parsed(u, w)
<1>1. v.co.req = u.co.req /\ v.form \ v.se.forms = u.form \ u.se.forms
  BY DEF Even
<1>2. /\ w.se.sock \in {u.se.sock, NoSock}
      /\ w.se.sock # NoSock => w.co.req = u.co.req /\ w.co.peer = u.co.peer
      /\ w.se.idle \in {u.se.idle, 0}
      /\ Lost(w) = Lost(u)
  BY DEF Even, Parsed
<1>3. QED
  BY <1>1, <1>2 DEF Parsed

LEMMA MoreWent ==
    ASSUME NEW v, NEW w, More(v, w)
    PROVE  Went(v, w)
BY DEF More, Even, Parsed, Went

LEMMA WentMore ==
    ASSUME NEW u, Base(u), NEW v, Base(v), NEW w, Base(w), Went(u, v), More(v, w)
    PROVE  Went(u, w)
<1>1. Len(u.se.files) \in Nat /\ Len(v.se.files) \in Nat /\ Len(w.se.files) \in Nat
  BY OwnInTable
<1>2. w.se.idle = 0 \/ (v.se.idle # 0 /\ Len(w.se.files) <= Len(v.se.files))
  BY DEF More, Even
<1>3. v.se.idle = 0 \/ Len(v.se.files) <= Len(u.se.files)
  BY DEF Went
<1>4. Parsed(u, w)
  BY EvenParsed DEF More, Went
<1>5. QED
  BY <1>1, <1>2, <1>3, <1>4, SMTT(30) DEF Went

LEMMA MoreThenWent ==
    ASSUME NEW u, Base(u), NEW v, Base(v), NEW w, Base(w), More(u, v), v.se.sock # NoSock,
           Went(v, w)
    PROVE  Went(u, w)
<1>1. Len(u.se.files) \in Nat /\ Len(v.se.files) \in Nat /\ Len(w.se.files) \in Nat
  BY OwnInTable
<1>2. w.se.idle = 0 \/ (v.se.idle # 0 /\ Len(w.se.files) <= Len(v.se.files))
  BY DEF Went, Parsed
<1>3. v.se.idle = 0 \/ Len(v.se.files) <= Len(u.se.files)
  BY DEF More
<1>4. Parsed(u, w)
  BY ParsedEven DEF More, Went
<1>5. QED
  BY <1>1, <1>2, <1>3, <1>4, SMTT(30) DEF Went

\* Once the clock was reset, the list may grow.
LEMMA ActiveWent ==
    ASSUME NEW u, NEW v, NEW w, Even(u, v), v.se.idle = 0, v.se.sock # NoSock, Parsed(v, w)
    PROVE  Went(u, w)
<1>1. Parsed(u, w) /\ w.se.idle = 0
  BY ParsedEven DEF Parsed
<1>2. QED
  BY <1>1 DEF Went

----------------------------------------------------------------------------
(* The fields each simple step sets *)

LEMMA SeTypes ==
    ASSUME NEW w, Base(w)
    PROVE  /\ w \in WorkSet /\ w.se \in WiSess /\ w.co \in Connection
           /\ w.co.hdrs \in 0 .. 2 /\ w.co.room \in 0 .. ROOM /\ ROOM \in Nat
           /\ w.se.tx \subseteq TxSlot /\ w.se.flags \subseteq {"BINARY", "HEADERSENT"}
           /\ w.se.state \in State /\ w.err \in BOOLEAN
BY UnitsAssumption DEF Base, WorkSet, WiSess, Connection

LEMMA ErrFields ==
    ASSUME NEW w, Base(w), NEW r, r = Ok(w) \/ r = Fail(w)
    PROVE  /\ Base(r) /\ r.se = w.se /\ r.co = w.co /\ Held(w, r)
           /\ More(w, r)
<1>1. w \in WorkSet
  BY SeTypes
<1>2. r.se = w.se /\ r.co = w.co /\ r.form = w.form /\ r.file = w.file
  BY <1>1 DEF WorkSet, Ok, Fail
<1>3. Base(r)
  BY ErrStep DEF Step, Keeps
<1>4. QED
  BY <1>2, <1>3, HeldMore DEF Held

LEMMA SendHdrFields ==
    ASSUME NEW w, Base(w), CanSend(w), NEW r, r = SendHdr(w)
    PROVE  /\ Base(r) /\ Held(w, r) /\ r.se = w.se
           /\ r.co.hdrs = Min2(2, w.co.hdrs + 1)
           /\ r.co.req = w.co.req /\ r.co.peer = w.co.peer
<1>1. w \in WorkSet /\ w.co \in Connection
  BY SeTypes
<1>2. /\ r.se = w.se /\ r.form = w.form /\ r.file = w.file
      /\ r.co = [w.co EXCEPT !.room = @ - 1, !.hdrs = Min2(2, @ + 1)]
  BY <1>1 DEF WorkSet, SendHdr
<1>3. /\ r.co.hdrs = Min2(2, w.co.hdrs + 1)
      /\ r.co.req = w.co.req /\ r.co.peer = w.co.peer
  BY <1>1, <1>2 DEF Connection
<1>4. Base(r)
  BY SendHdrStep DEF Step, Keeps
<1>5. QED
  BY <1>2, <1>3, <1>4 DEF Held

LEMMA CloseSocketFields ==
    ASSUME NEW w, Base(w), NEW r, r = CloseSocket(w)
    PROVE  /\ Base(r) /\ Held(w, r) /\ Over(r)
           /\ r.se.tx = w.se.tx /\ r.se.flags = w.se.flags /\ r.co.hdrs = w.co.hdrs
<1>1. w \in WorkSet /\ w.se \in WiSess /\ w.co \in Connection
  BY SeTypes
<1>2. /\ r.se = [w.se EXCEPT !.sock = NoSock, !.state = "ENDING"]
      /\ r.co = IF w.se.sock = NoSock THEN w.co ELSE ClosedConn(w.co)
      /\ r.form = w.form /\ r.file = w.file
  BY <1>1 DEF WorkSet, CloseSocket
<1>3. /\ r.se.tx = w.se.tx /\ r.se.flags = w.se.flags /\ r.se.files = w.se.files
      /\ r.se.forms = w.se.forms /\ r.se.idle = w.se.idle
  BY <1>1, <1>2 DEF WiSess
<1>4. r.co.hdrs = w.co.hdrs
  BY <1>2 DEF ClosedConn, NoConnection
<1>5. Base(r) /\ Over(r)
  BY CloseSocketStep DEF Step, Keeps
<1>6. QED
  BY <1>2, <1>3, <1>4, <1>5 DEF Held

\* wi_senderr sends a header to a client that was sent none, and both end the session.
LEMMA EndingFields ==
    ASSUME NEW w, Base(w), w.se.tx = {}, w.co.hdrs <= 1, NEW r,
           \/ r = wi_senderr(w) /\ (w.se.sock # NoSock => w.co.hdrs = 0)
           \/ r = wi_txdone(w)
    PROVE  /\ Base(r) /\ Held(w, r) /\ More(w, r) /\ Over(r) /\ Whole(r) /\ Replying(r)
           /\ r.err = FALSE
<1> DEFINE v == IF CanSend(w) /\ r = wi_senderr(w) THEN SendHdr(w) ELSE w
           z == CloseSocket(v)
<1>1. ASSUME NEW u, Base(u), Held(w, u), u.se.tx = {}, u.co.hdrs <= 1, r = Ok(CloseSocket(u))
      PROVE  /\ Base(r) /\ Held(w, r) /\ Over(r) /\ r.se.tx = {} /\ r.co.hdrs <= 1
             /\ r.err = FALSE
  <2> DEFINE t == CloseSocket(u)
  <2>1. Base(t) /\ Held(u, t) /\ Over(t) /\ t.se.tx = {} /\ t.co.hdrs <= 1
    BY <1>1, CloseSocketFields
  <2>2. r = Ok(t)
    BY <1>1
  <2> HIDE DEF t
  <2>3. Base(r) /\ r.se = t.se /\ r.co = t.co /\ Held(t, r) /\ r.err = FALSE
    BY <2>1, <2>2, ErrFields, ErrStep
  <2>4. QED
    BY <1>1, <2>1, <2>3 DEF Held, Over
<1>2. /\ Base(r) /\ Held(w, r) /\ Over(r) /\ r.se.tx = {} /\ r.co.hdrs <= 1
      /\ r.err = FALSE
  <2>1. CASE r = wi_txdone(w)
    <3>1. Held(w, w) /\ r = Ok(CloseSocket(w))
      BY <2>1 DEF Held, wi_txdone
    <3>2. QED
      BY <1>1, <3>1
  <2>2. CASE r = wi_senderr(w) /\ CanSend(w) /\ w.co.hdrs = 0
    <3> DEFINE u == SendHdr(w)
    <3>1. Base(u) /\ Held(w, u) /\ u.se = w.se /\ u.co.hdrs <= 1
      BY <2>2, SendHdrFields DEF Min2
    <3>2. r = Ok(CloseSocket(u))
      BY <2>2 DEF wi_senderr
    <3> HIDE DEF u
    <3>3. QED
      BY <1>1, <3>1, <3>2
  <2>3. CASE r = wi_senderr(w) /\ ~CanSend(w)
    <3>1. Held(w, w) /\ r = Ok(CloseSocket(w))
      BY <2>3 DEF Held, wi_senderr
    <3>2. QED
      BY <1>1, <3>1
  <2>4. QED
    BY <2>1, <2>2, <2>3 DEF CanSend
<1>3. More(w, r)
  BY <1>2, HeldMore DEF Over
<1>4. QED
  BY <1>2, <1>3 DEF Over, Whole, Replying

\* The header is sent, or nothing happens.
LEMMA ReplyHdrFields ==
    ASSUME NEW w, Base(w), NEW r, r = wi_replyhdr(w)
    PROVE  /\ Base(r) /\ Held(w, r) /\ More(w, r)
           /\ r.se.tx = w.se.tx /\ r.se.sock = w.se.sock /\ r.se.state = w.se.state
           /\ "BINARY" \in r.se.flags <=> "BINARY" \in w.se.flags
           /\ r.co.req = w.co.req /\ r.co.peer = w.co.peer
           /\ ~CanSend(w) => r = Fail(w) /\ r.err = TRUE /\ r.se = w.se /\ r.co = w.co
           /\ CanSend(w) => /\ r.err = FALSE /\ "HEADERSENT" \in r.se.flags
                            /\ r.co.hdrs = Min2(2, w.co.hdrs + 1)
<1>1. Base(r)
  BY ReplyHdrStep DEF Step, Keeps
<1>2. CASE CanSend(w)
  <2> DEFINE v == SendHdr(w)
             x == v.se.flags \cup {"HEADERSENT"}
  <2>1. /\ Base(v) /\ Held(w, v) /\ v.se = w.se
        /\ v.co.hdrs = Min2(2, w.co.hdrs + 1)
        /\ v.co.req = w.co.req /\ v.co.peer = w.co.peer
    BY <1>2, SendHdrFields
  <2>2. r = Ok([v EXCEPT !.se.flags = @ \cup {"HEADERSENT"}])
    BY <1>2 DEF wi_replyhdr
  <2> HIDE DEF v
  <2>3. v \in WorkSet /\ v.se \in WiSess
    BY <2>1, SeTypes
  <2>4. /\ r.se = [v.se EXCEPT !.flags = x] /\ r.co = v.co /\ r.err = FALSE
        /\ r.form = v.form /\ r.file = v.file
    BY <2>2, <2>3 DEF Ok, WorkSet
  <2>5. /\ r.se.tx = v.se.tx /\ r.se.sock = v.se.sock /\ r.se.state = v.se.state
        /\ r.se.flags = x /\ r.se.files = v.se.files /\ r.se.forms = v.se.forms
        /\ r.se.idle = v.se.idle
    BY <2>3, <2>4 DEF WiSess
  <2>6. Held(w, r)
    BY <2>1, <2>4, <2>5 DEF Held
  <2>7. QED
    BY <1>1, <1>2, <2>1, <2>4, <2>5, <2>6, HeldMore
<1>3. CASE ~CanSend(w)
  <2>1. r = Fail(w)
    BY <1>3 DEF wi_replyhdr
  <2>2. r.se = w.se /\ r.co = w.co /\ Held(w, r) /\ More(w, r) /\ r.err = TRUE
    BY <2>1, ErrFields, ErrStep
  <2>3. QED
    BY <1>1, <1>3, <2>1, <2>2
<1>4. QED
  BY <1>2, <1>3

----------------------------------------------------------------------------
(* Txbufs, and the fields a handler sets *)

\* Nothing changes but the txbufs.
LEMMA WithTxFields ==
    ASSUME NEW w, Base(w), NEW a, NEW b, NEW e, NEW r, r = WithTx(w, a, b, e), Base(r)
    PROVE  /\ Held(w, r) /\ More(w, r) /\ r.co = w.co /\ r.err = e
           /\ r.se.tx = b /\ r.se.flags = w.se.flags
           /\ r.se.sock = w.se.sock /\ r.se.state = w.se.state
<1>1. w.se \in WiSess
  BY SeTypes
<1>2. /\ r.se = [w.se EXCEPT !.tx = b] /\ r.co = w.co /\ r.err = e
      /\ r.form = w.form /\ r.file = w.file
  BY DEF WithTx
<1>3. /\ r.se.tx = b /\ r.se.flags = w.se.flags /\ r.se.files = w.se.files
      /\ r.se.forms = w.se.forms /\ r.se.idle = w.se.idle
      /\ r.se.sock = w.se.sock /\ r.se.state = w.se.state
  BY <1>1, <1>2 DEF WiSess
<1>4. Held(w, r)
  BY <1>2, <1>3 DEF Held
<1>5. QED
  BY <1>2, <1>3, <1>4, HeldMore

\* An allocation that did not fail gave a txbuf.
LEMMA FirstSlotsSome ==
    ASSUME NEW S \in SUBSET TxSlot, NEW k \in Nat \ {0}, ~(Cardinality(S) < k)
    PROVE  FirstSlots(S, k) # {}
<1>1. S # {}
  BY FS_EmptySet
<1>2. PICK t \in S : \A u \in S : t <= u
  BY <1>1, LeastElement, SlotTypes
<1>3. {u \in S : u < t} = {}
  <2>1. t \in Nat /\ \A u \in S : u \in Nat /\ t <= u
    BY <1>2, SlotTypes
  <2>2. \A u \in S : ~(u < t)
    BY <2>1
  <2>3. QED
    BY <2>2
<1>4. Cardinality({u \in S : u < t}) = 0
  BY <1>3, FS_EmptySet
<1>5. QED
  BY <1>4 DEF FirstSlots

Failed(w) == w.err = TRUE

LEMMA TxallocFields ==
    ASSUME NEW w, Base(w), NEW k \in Nat, NEW r, r = wi_txalloc(w, k)
    PROVE  /\ Base(r) /\ Held(w, r) /\ More(w, r) /\ r.co = w.co
           /\ w.se.tx \subseteq r.se.tx /\ r.se.flags = w.se.flags
           /\ r.se.sock = w.se.sock /\ r.se.state = w.se.state
           /\ Failed(r) \/ k = 0 \/ r.se.tx # {}
<1> DEFINE free == TxSlot \ w.tx
           new  == FirstSlots(free, k)
           a    == w.tx \cup new
           b    == w.se.tx \cup new
           e    == Cardinality(free) < k
<1>1. Base(r) /\ w \in WorkSet
  BY TxallocStep, SeTypes DEF Step, Keeps
<1>2. e = TRUE \/ k = 0 \/ b # {}
  BY FirstSlotsSome
<1>3. w.se.tx \subseteq b
  OBVIOUS
<1>4. r = TxErrExcept(w, a, b, e)
  BY DEF wi_txalloc, TxErrExcept
<1> HIDE DEF a, b, e
<1>5. r = WithTx(w, a, b, e)
  BY <1>1, <1>4, TxFields
<1>6. /\ Held(w, r) /\ More(w, r) /\ r.co = w.co /\ r.err = e
      /\ r.se.tx = b /\ r.se.flags = w.se.flags
      /\ r.se.sock = w.se.sock /\ r.se.state = w.se.state
  BY <1>1, <1>5, WithTxFields
<1>7. Failed(r) \/ k = 0 \/ r.se.tx # {}
  BY <1>2, <1>6 DEF Failed
<1>8. QED
  BY <1>1, <1>3, <1>6, <1>7

LEMMA TxallocSome ==
    ASSUME NEW w, Base(w), NEW k \in Nat, k # 0, NEW r, r = wi_txalloc(w, k), r.err = FALSE
    PROVE  r.se.tx # {}
<1>1. Failed(r) \/ k = 0 \/ r.se.tx # {}
  BY TxallocFields
<1>2. ~Failed(r)
  BY DEF Failed
<1>3. QED
  BY <1>1, <1>2

LEMMA TxfreeFields ==
    ASSUME NEW w, Base(w), NEW S \in SUBSET w.se.tx, NEW r, r = wi_txfree(w, S)
    PROVE  /\ Base(r) /\ Held(w, r) /\ More(w, r) /\ r.co = w.co
           /\ r.se.tx = w.se.tx \ S /\ r.se.flags = w.se.flags
           /\ r.se.sock = w.se.sock /\ r.se.state = w.se.state
<1> DEFINE a == w.tx \ S
           b == w.se.tx \ S
<1>1. Base(r) /\ w \in WorkSet
  BY TxfreeStep, SeTypes DEF Step, Keeps
<1>2. b = w.se.tx \ S
  OBVIOUS
<1>3. r = TxExcept(w, a, b)
  BY DEF wi_txfree, TxExcept
<1> HIDE DEF a, b
<1>4. r = WithTx(w, a, b, w.err)
  BY <1>1, <1>3, TxFields
<1>5. QED
  BY <1>1, <1>2, <1>4, WithTxFields

LEMMA SetIdleFields ==
    ASSUME NEW w, Base(w), NEW x \in 0 .. TMO + 1, x \in {w.se.idle, 0},
           NEW r, r = SetIdle(w, x)
    PROVE  /\ Base(r) /\ More(w, r) /\ r.co = w.co /\ r.file = w.file
           /\ r.se.idle = x
           /\ r.se.tx = w.se.tx /\ r.se.flags = w.se.flags /\ r.se.files = w.se.files
           /\ r.se.sock = w.se.sock /\ r.se.state = w.se.state
<1>1. Base(r)
  BY IdleStep, UnitsAssumption, 0 \in 0 .. RXBUF DEF Step, Keeps
<1>2. w \in WorkSet /\ w.se \in WiSess
  BY SeTypes
<1>3. /\ r.se = [w.se EXCEPT !.idle = x] /\ r.co = w.co
      /\ r.form = w.form /\ r.file = w.file
  BY <1>2 DEF WorkSet, SetIdle
<1>4. /\ r.se.idle = x /\ r.se.forms = w.se.forms
      /\ r.se.tx = w.se.tx /\ r.se.flags = w.se.flags /\ r.se.files = w.se.files
      /\ r.se.sock = w.se.sock /\ r.se.state = w.se.state
  BY <1>2, <1>3 DEF WiSess
<1>5. Lost(r) = Lost(w)
  BY <1>3, <1>4 DEF Lost, Own
<1>6. Len(w.se.files) \in Nat
  BY OwnInTable
<1>7. QED
  BY <1>1, <1>3, <1>4, <1>5, <1>6 DEF More, Even

LEMMA SetStateFields ==
    ASSUME NEW w, Base(w), NEW st \in State, w.se.sock # NoSock \/ st = "ENDING",
           NEW r, r = SetState(w, st)
    PROVE  /\ Base(r) /\ Held(w, r) /\ More(w, r) /\ r.co = w.co /\ r.err = w.err
           /\ r.se.state = st
           /\ r.se.tx = w.se.tx /\ r.se.flags = w.se.flags /\ r.se.sock = w.se.sock
<1>1. Base(r) /\ r.err = w.err
  BY SetStateKeeps DEF Keeps
<1>2. w \in WorkSet /\ w.se \in WiSess
  BY SeTypes
<1>3. /\ r.se = [w.se EXCEPT !.state = st] /\ r.co = w.co
      /\ r.form = w.form /\ r.file = w.file
  BY <1>2 DEF WorkSet, SetState
<1>4. /\ r.se.state = st /\ r.se.idle = w.se.idle /\ r.se.forms = w.se.forms
      /\ r.se.tx = w.se.tx /\ r.se.flags = w.se.flags /\ r.se.files = w.se.files
      /\ r.se.sock = w.se.sock
  BY <1>2, <1>3 DEF WiSess
<1>5. Held(w, r)
  BY <1>3, <1>4 DEF Held
<1>6. QED
  BY <1>1, <1>3, <1>4, <1>5, HeldMore

LEMMA SetFlagsFields ==
    ASSUME NEW w, Base(w), NEW x \in SUBSET {"BINARY", "HEADERSENT"},
           NEW r, r = SetFlags(w, x)
    PROVE  /\ Base(r) /\ Held(w, r) /\ More(w, r) /\ r.co = w.co /\ r.err = w.err
           /\ r.se.flags = x
           /\ r.se.tx = w.se.tx /\ r.se.state = w.se.state /\ r.se.sock = w.se.sock
<1>1. Base(r) /\ r.err = w.err
  BY SetFlagsKeeps DEF Keeps
<1>2. w \in WorkSet /\ w.se \in WiSess
  BY SeTypes
<1>3. /\ r.se = [w.se EXCEPT !.flags = x] /\ r.co = w.co
      /\ r.form = w.form /\ r.file = w.file
  BY <1>2 DEF WorkSet, SetFlags
<1>4. /\ r.se.flags = x /\ r.se.idle = w.se.idle /\ r.se.forms = w.se.forms
      /\ r.se.tx = w.se.tx /\ r.se.state = w.se.state /\ r.se.files = w.se.files
      /\ r.se.sock = w.se.sock
  BY <1>2, <1>3 DEF WiSess
<1>5. Held(w, r)
  BY <1>3, <1>4 DEF Held
<1>6. QED
  BY <1>1, <1>3, <1>4, <1>5, HeldMore

----------------------------------------------------------------------------
(* Forms and files *)

\* wi_buildform loses one slot when it rejects the pairs, and none otherwise.
LEMMA BuildformFields ==
    ASSUME NEW w, Base(w), NEW pairs, NEW r, r = wi_buildform(w, pairs)
    PROVE  /\ Base(r) /\ r.co = w.co /\ r.file = w.file
           /\ r.se.idle = w.se.idle /\ r.se.files = w.se.files /\ r.se.tx = w.se.tx
           /\ r.se.flags = w.se.flags /\ r.se.state = w.se.state /\ r.se.sock = w.se.sock
           /\ \/ r.form \ r.se.forms = w.form \ w.se.forms
              \/ /\ pairs = "bad" /\ Failed(r)
                 /\ \E f \in FormSlot \ w.form :
                       r.form \ r.se.forms = (w.form \ w.se.forms) \cup {f}
<1> DEFINE free == FormSlot \ w.form
           f    == FirstSlot(free)
           a    == w.form \cup {f}
           b    == w.se.forms \cup {f}
<1>1. /\ Base(r) /\ r.file = w.file /\ r.se.files = w.se.files
      /\ r.se.flags = w.se.flags /\ r.se.state = w.se.state /\ r.se.sock = w.se.sock
  BY BuildformStep DEF Quiet, Step, Keeps
<1>2. w \in WorkSet /\ w.se \in WiSess /\ w.form \subseteq FormSlot /\ w.se.forms \subseteq w.form
  BY SeTypes DEF Base, WorkSet
<1>3. CASE free = {}
  <2>1. r = Fail(w)
    BY <1>3 DEF wi_buildform
  <2>2. r.se = w.se /\ r.co = w.co /\ r.form = w.form
    BY <2>1, ErrFields DEF Held
  <2>3. QED
    BY <1>1, <2>2
<1>4. CASE free # {}
  <2>1. f \in free
    BY <1>4, FirstSlotIn, SlotTypes
  <2>2. r = IF pairs = "bad" THEN Fail([w EXCEPT !.form = @ \cup {f}])
                             ELSE Ok([w EXCEPT !.form = @ \cup {f}, !.se.forms = @ \cup {f}])
    BY <1>4 DEF wi_buildform
  <2> HIDE DEF f
  <2>3. CASE pairs = "bad"
    <3>1. r = [w EXCEPT !.form = @ \cup {f}, !.err = TRUE]
      BY <1>2, <2>2, <2>3 DEF Fail, WorkSet
    <3>2. r.se = w.se /\ r.co = w.co /\ r.form = a /\ Failed(r)
      BY <1>2, <3>1 DEF WorkSet, Failed
    <3>3. r.form \ r.se.forms = (w.form \ w.se.forms) \cup {f}
      BY <1>2, <2>1, <3>2
    <3>4. QED
      BY <1>1, <2>1, <2>3, <3>2, <3>3
  <2>4. CASE pairs # "bad"
    <3> DEFINE v == FormExcept(w, a, b)
    <3>1. r = Ok(v)
      BY <2>2, <2>4 DEF FormExcept
    <3> HIDE DEF a, b
    <3>2. v = WithForm(w, a, b)
      BY <1>2, FormFields
    <3>3. /\ v.se = [w.se EXCEPT !.forms = b] /\ v.co = w.co /\ v.form = a
      BY <3>2 DEF WithForm
    <3> HIDE DEF v
    <3>4. r.se = v.se /\ r.co = v.co /\ r.form = v.form
      <4>1. v \in [se : {v.se}, co : {v.co}, tx : {w.tx}, form : {v.form}, file : {w.file}, err : {w.err}]
        BY <3>2, <3>3 DEF WithForm
      <4>2. QED
        BY <3>1, <4>1 DEF Ok
    <3>5. r.se.forms = b /\ r.se.tx = w.se.tx /\ r.se.idle = w.se.idle
      BY <1>2, <3>3, <3>4 DEF WiSess
    <3>6. r.form \ r.se.forms = w.form \ w.se.forms
      BY <1>2, <2>1, <3>3, <3>4, <3>5 DEF a, b
    <3>7. QED
      BY <1>1, <3>3, <3>4, <3>5, <3>6
  <2>5. QED
    BY <2>3, <2>4
<1>5. QED
  BY <1>3, <1>4

\* A form is built, with a slot lost at most when its pairs were malformed.
LEMMA BuildformParsed ==
    ASSUME NEW w, Base(w), NEW pairs, pairs = "bad" => BadPairs(w.co.req),
           NEW r, r = wi_buildform(w, pairs)
    PROVE  /\ Parsed(w, r) /\ (Failed(r) \/ Even(w, r))
           /\ Base(r) /\ r.co = w.co /\ r.file = w.file
           /\ r.se.idle = w.se.idle /\ r.se.files = w.se.files /\ r.se.tx = w.se.tx
           /\ r.se.flags = w.se.flags /\ r.se.state = w.se.state /\ r.se.sock = w.se.sock
<1>1. /\ Base(r) /\ r.co = w.co /\ r.file = w.file
      /\ r.se.idle = w.se.idle /\ r.se.files = w.se.files /\ r.se.tx = w.se.tx
      /\ r.se.flags = w.se.flags /\ r.se.state = w.se.state /\ r.se.sock = w.se.sock
      /\ \/ r.form \ r.se.forms = w.form \ w.se.forms
         \/ /\ pairs = "bad" /\ Failed(r)
            /\ \E f \in FormSlot \ w.form :
                  r.form \ r.se.forms = (w.form \ w.se.forms) \cup {f}
  BY BuildformFields
<1>2. Lost(r) = Lost(w)
  BY <1>1 DEF Lost, Own
<1>3. CASE r.form \ r.se.forms = w.form \ w.se.forms
  BY <1>1, <1>2, <1>3 DEF Parsed, Even
<1>4. CASE /\ pairs = "bad" /\ Failed(r)
           /\ \E f \in FormSlot \ w.form :
                 r.form \ r.se.forms = (w.form \ w.se.forms) \cup {f}
  <2>1. PICK f \in FormSlot \ w.form : r.form \ r.se.forms = (w.form \ w.se.forms) \cup {f}
    BY <1>4
  <2>2. f \in FormSlot \ (w.form \ w.se.forms)
    BY <2>1
  <2>3. QED
    BY <1>1, <1>2, <1>4, <2>1, <2>2 DEF Parsed
<1>5. QED
  BY <1>1, <1>3, <1>4

Elements(q) == {q[i] : i \in 1 .. Len(q)}

LEMMA HeadAndRest ==
    ASSUME NEW S, NEW q \in Seq(S), q # <<>>, Distinct(q)
    PROVE  /\ Elements(q) = {Head(q)} \cup Elements(Tail(q))
           /\ Head(q) \notin Elements(Tail(q))
           /\ Len(Tail(q)) = Len(q) - 1 /\ Len(q) \in Nat \ {0}
<1> DEFINE t == Tail(q)
<1>1. /\ Len(t) = Len(q) - 1 /\ Head(q) = q[1] /\ Len(q) \in Nat \ {0}
      /\ \A i \in 1 .. Len(q) - 1 : t[i] = q[i + 1]
  BY TailElements
<1> HIDE DEF t
<1>2. ASSUME NEW x \in Elements(t)
      PROVE  x \in Elements(q) /\ x # Head(q)
  <2>1. PICK i \in 1 .. Len(t) : x = t[i]
    BY DEF Elements
  <2>2. i \in 1 .. Len(q) - 1 /\ i + 1 \in 1 .. Len(q) /\ i + 1 # 1 /\ 1 \in 1 .. Len(q)
    BY <1>1
  <2>3. x = q[i + 1] /\ q[i + 1] # q[1]
    BY <1>1, <2>1, <2>2 DEF Distinct
  <2>4. QED
    BY <1>1, <2>2, <2>3 DEF Elements
<1>3. ASSUME NEW x \in Elements(q), x # Head(q)
      PROVE  x \in Elements(t)
  <2>1. PICK i \in 1 .. Len(q) : x = q[i]
    BY DEF Elements
  <2>2. i - 1 \in 1 .. Len(q) - 1 /\ (i - 1) + 1 = i
    BY <1>1, <1>3, <2>1
  <2>3. t[i - 1] = q[(i - 1) + 1]
    BY <1>1, <2>2
  <2>4. x = t[i - 1] /\ i - 1 \in 1 .. Len(t)
    BY <1>1, <2>1, <2>2, <2>3
  <2>5. QED
    BY <2>4 DEF Elements
<1>4. Head(q) \in Elements(q)
  BY <1>1, 1 \in 1 .. Len(q) DEF Elements
<1>5. QED
  BY <1>1, <1>2, <1>3, <1>4 DEF t

LEMMA WithFilesFields ==
    ASSUME NEW w, Base(w), NEW fl, NEW q, NEW r, r = WithFiles(w, fl, q)
    PROVE  /\ r.co = w.co /\ r.err = w.err /\ r.form = w.form /\ r.file = fl
           /\ r.se.idle = w.se.idle /\ r.se.forms = w.se.forms
           /\ r.se.tx = w.se.tx /\ r.se.flags = w.se.flags
           /\ r.se.sock = w.se.sock /\ r.se.state = w.se.state
           /\ r.se.files = q /\ Own(r) = Elements(q)
<1>1. w.se \in WiSess
  BY SeTypes
<1>2. /\ r.se = [w.se EXCEPT !.files = q] /\ r.co = w.co /\ r.err = w.err
      /\ r.form = w.form /\ r.file = fl
  BY DEF WithFiles
<1>3. /\ r.se.tx = w.se.tx /\ r.se.flags = w.se.flags /\ r.se.files = q
      /\ r.se.forms = w.se.forms /\ r.se.idle = w.se.idle
      /\ r.se.sock = w.se.sock /\ r.se.state = w.se.state
  BY <1>1, <1>2, SMTT(20) DEF WiSess
<1>4. QED
  BY <1>2, <1>3 DEF Own, Elements

\* A file is closed: nothing is lost, and the files below it are as they were.
LEMMA FcloseFields ==
    ASSUME NEW w, Base(w), w.se.files # <<>>, NEW r, r = wi_fclose(w)
    PROVE  /\ Base(r) /\ More(w, r) /\ r.co = w.co /\ r.err = w.err
           /\ r.se.idle = w.se.idle /\ r.se.tx = w.se.tx /\ r.se.flags = w.se.flags
           /\ r.se.sock = w.se.sock /\ r.se.state = w.se.state
           /\ r.se.files = FileRest(w) /\ Len(r.se.files) = Len(w.se.files) - 1
           /\ Len(w.se.files) \in Nat \ {0}
           /\ Own(w) = {FileHead(w)} \cup Own(r) /\ FileHead(w) \notin Own(r)
           /\ \A f \in Own(r) : r.file[f] = w.file[f]
<1> DEFINE f  == FileHead(w)
           s  == w.se.files
           q  == Tail(s)
           fl == [w.file EXCEPT ![f] = FreeFile]
<1>1. w \in WorkSet /\ s \in Seq(FileSlot) /\ w.file \in [FileSlot -> WiFile] /\ Distinct(s)
  BY DEF Base, WorkSet, WiSess
<1>2. /\ Elements(s) = {Head(s)} \cup Elements(q) /\ Head(s) \notin Elements(q)
      /\ Len(q) = Len(s) - 1 /\ Len(s) \in Nat \ {0}
  BY <1>1, HeadAndRest
<1>3. f \in FileSlot /\ f = Head(s)
  BY OwnInTable DEF FileHead
<1>4. Base(r)
  BY FcloseKeeps DEF Keeps
<1>5. r = FileExcept(w, f, FreeFile, q)
  BY DEF wi_fclose, FileExcept
<1> HIDE DEF f, q
<1>6. r = WithFiles(w, fl, q)
  BY <1>1, <1>3, <1>5, FileFields
<1>7. fl[f] = FreeFile /\ \A g \in FileSlot \ {f} : fl[g] = w.file[g]
  BY <1>1, <1>3
<1> HIDE DEF fl
<1>8. /\ r.co = w.co /\ r.err = w.err /\ r.form = w.form /\ r.file = fl
      /\ r.se.idle = w.se.idle /\ r.se.forms = w.se.forms
      /\ r.se.tx = w.se.tx /\ r.se.flags = w.se.flags
      /\ r.se.sock = w.se.sock /\ r.se.state = w.se.state
      /\ r.se.files = q /\ Own(r) = Elements(q)
  BY <1>6, WithFilesFields
<1>9. Own(w) = Elements(s)
  BY DEF Own, Elements
<1>10. Own(w) = {f} \cup Own(r) /\ f \notin Own(r) /\ Own(r) \subseteq FileSlot
  BY <1>2, <1>3, <1>4, <1>8, <1>9, OwnInTable
<1>11. \A g \in Own(r) : r.file[g] = w.file[g]
  BY <1>7, <1>8, <1>10
<1>12. Lost(r) = Lost(w)
  BY <1>7, <1>8, <1>10 DEF Lost
<1>13. More(w, r)
  BY <1>2, <1>8, <1>12 DEF More, Even
<1>14. QED
  BY <1>2, <1>4, <1>8, <1>10, <1>11, <1>13 DEF f, q, FileRest

\* From w to r a file was opened above the others, and nothing was lost.
OpenedAbove(w, r, kind, left) ==
    /\ Base(r) /\ Even(w, r) /\ r.co = w.co /\ r.err = FALSE
    /\ r.se.idle = w.se.idle /\ r.se.tx = w.se.tx /\ r.se.flags = w.se.flags
    /\ r.se.sock = w.se.sock /\ r.se.state = w.se.state
    /\ FileRest(r) = w.se.files /\ r.se.files # <<>>
    /\ Len(r.se.files) = Len(w.se.files) + 1
    /\ Own(r) = {FileHead(r)} \cup Own(w) /\ FileHead(r) \notin Own(w)
    /\ r.file[FileHead(r)].kind = kind /\ r.file[FileHead(r)].left = left
    /\ \A f \in Own(w) : r.file[f] = w.file[f]

\* A file is opened above the others, or nothing happens.
LEMMA FopenFields ==
    ASSUME NEW w, Base(w), NEW kind, NEW left \in Nat, NEW r, r = wi_fopen(w, kind, left)
    PROVE  (r = Fail(w) /\ r.err = TRUE) \/ OpenedAbove(w, r, kind, left)
<1> DEFINE free == {f \in FileSlot : w.file[f] = FreeFile}
           f    == FirstSlot(free)
           x    == [kind |-> kind, left |-> left]
           s    == w.se.files
           q    == <<f>> \o s
           fl   == [w.file EXCEPT ![f] = x]
           v    == FileExcept(w, f, x, q)
<1>1. w \in WorkSet /\ s \in Seq(FileSlot) /\ w.file \in [FileSlot -> WiFile] /\ Distinct(s)
  BY DEF Base, WorkSet, WiSess
<1>2. CASE kind \notin FileKind \/ free = {}
  BY <1>2, ErrStep DEF wi_fopen
<1>3. CASE kind \in FileKind /\ free # {}
  <2>1. f \in free
    BY <1>3, FirstSlotIn, SlotTypes
  <2>2. f \in FileSlot /\ w.file[f] = FreeFile
    BY <2>1
  <2>3. r = Ok(v)
    BY <1>3 DEF wi_fopen, FileExcept
  <2> HIDE DEF f
  <2>4. x.kind = kind /\ x.left = left /\ kind # "free"
    BY <1>3 DEF FileKind
  <2> HIDE DEF x
  <2>5. fl[f] = x /\ \A g \in FileSlot \ {f} : fl[g] = w.file[g]
    BY <1>1, <2>2
  <2>6. /\ q \in Seq(FileSlot) /\ q # <<>>
        /\ Len(q) = Len(s) + 1 /\ Head(q) = f /\ Tail(q) = s
    BY <1>1, <2>2, PushFront
  <2>7. v = WithFiles(w, fl, q)
    <3> HIDE DEF q
    <3>1. QED
      BY <1>1, <2>2, FileFields
  <2> HIDE DEF q, fl, v
  <2>8. /\ v.co = w.co /\ v.err = w.err /\ v.form = w.form /\ v.file = fl
        /\ v.se.idle = w.se.idle /\ v.se.forms = w.se.forms
        /\ v.se.tx = w.se.tx /\ v.se.flags = w.se.flags
        /\ v.se.sock = w.se.sock /\ v.se.state = w.se.state
        /\ v.se.files = q /\ Own(v) = Elements(q)
    BY <2>7, WithFilesFields
  <2>9. v \in [se : {v.se}, co : {v.co}, tx : {w.tx}, form : {v.form}, file : {v.file}, err : {v.err}]
    BY <2>7, <2>8 DEF WithFiles
  <2>10. r.se = v.se /\ r.co = v.co /\ r.form = v.form /\ r.file = v.file /\ r.err = FALSE
    BY <2>3, <2>9 DEF Ok
  <2>11. r # Fail(w)
    BY <2>10, ErrStep
  <2>12. Base(r)
    BY <2>11, FopenKeeps DEF Opened, Keeps
  <2>13. r.se.files = q /\ Own(r) = Elements(q)
    BY <2>8, <2>10 DEF Own, Elements
  <2>14. Distinct(q)
    BY <2>12, <2>13 DEF Base
  <2>15. Own(r) = {f} \cup Own(w) /\ f \notin Own(w)
    <3>1. Elements(q) = {f} \cup Elements(s) /\ f \notin Elements(s)
      BY <2>6, <2>14, HeadAndRest
    <3>2. Own(w) = Elements(s)
      BY DEF Own, Elements
    <3>3. QED
      BY <2>13, <3>1, <3>2
  <2>16. Own(w) \subseteq FileSlot
    BY OwnInTable
  <2>17. \A g \in Own(w) : r.file[g] = w.file[g]
    BY <2>5, <2>8, <2>10, <2>15, <2>16
  <2>18. Lost(r) = Lost(w)
    BY <2>2, <2>4, <2>5, <2>8, <2>10, <2>15 DEF Lost
  <2>19. Even(w, r)
    BY <2>8, <2>10, <2>18 DEF Even
  <2>20. FileHead(r) = f /\ FileRest(r) = s /\ r.file[f] = x
    BY <2>5, <2>6, <2>8, <2>10, <2>13 DEF FileHead, FileRest
  <2>21. QED
    BY <2>4, <2>6, <2>8, <2>10, <2>12, <2>13, <2>15, <2>17, <2>19, <2>20 DEF OpenedAbove
<1>4. QED
  BY <1>2, <1>3

\* Blocks are read from a file.
LEMMA LeftFields ==
    ASSUME NEW w, Base(w), NEW f \in Own(w), NEW n \in Nat,
           NEW r, r = [w EXCEPT !.file[f].left = n]
    PROVE  /\ Base(r) /\ More(w, r) /\ r.se = w.se /\ r.co = w.co
           /\ \A g \in FileSlot : r.file[g].kind = w.file[g].kind
<1>1. /\ Base(r) /\ r.se = w.se /\ r.co = w.co
      /\ \A g \in FileSlot : r.file[g].kind = w.file[g].kind
  BY LeftKeeps DEF Step, Keeps
<1>2. w \in WorkSet
  BY SeTypes
<1>3. r.form = w.form
  BY <1>2 DEF WorkSet
<1>4. Lost(r) = Lost(w)
  <2>1. \A g \in FileSlot \ {f} : r.file[g] = w.file[g]
    BY <1>2 DEF WorkSet
  <2>2. Own(r) = Own(w)
    BY <1>1 DEF Own
  <2>3. QED
    BY <2>1, <2>2 DEF Lost
<1>5. Len(w.se.files) \in Nat
  BY OwnInTable
<1>6. QED
  BY <1>1, <1>3, <1>4, <1>5 DEF More, Even

\* Units are taken from the room a connection has.
LEMMA RoomFields ==
    ASSUME NEW w, Base(w), NEW n \in Nat, n <= w.co.room,
           NEW r, r = [w EXCEPT !.co.room = @ - n]
    PROVE  /\ Base(r) /\ Held(w, r) /\ More(w, r) /\ r.se = w.se
           /\ r.co.hdrs = w.co.hdrs /\ r.co.req = w.co.req /\ r.co.peer = w.co.peer
           /\ r.co.room = w.co.room - n
<1>1. Base(r)
  BY RoomStep DEF Step, Keeps
<1>2. w \in WorkSet /\ w.co \in Connection
  BY SeTypes
<1>3. r.se = w.se /\ r.form = w.form /\ r.file = w.file /\ r.co = [w.co EXCEPT !.room = @ - n]
  BY <1>2 DEF WorkSet
<1>4. /\ r.co.hdrs = w.co.hdrs /\ r.co.req = w.co.req /\ r.co.peer = w.co.peer
      /\ r.co.room = w.co.room - n
  BY <1>2, <1>3 DEF Connection
<1>5. Held(w, r)
  BY <1>3 DEF Held
<1>6. QED
  BY <1>1, <1>3, <1>4, <1>5, HeldMore

----------------------------------------------------------------------------
(* Sending *)

\* The header is sent unless it was, or unless the client takes nothing.
LEMMA HeaderTried ==
    ASSUME NEW w, Base(w), Whole(w), "HEADERSENT" \notin w.se.flags,
           NEW r, r = wi_replyhdr(w)
    PROVE  /\ Base(r) /\ Held(w, r) /\ More(w, r) /\ Whole(r)
           /\ r.se.tx = w.se.tx /\ r.se.sock = w.se.sock
           /\ "BINARY" \in r.se.flags <=> "BINARY" \in w.se.flags
           /\ w.se.sock # NoSock => Begun(r) /\ ((r.err = FALSE /\ Sent(r)) \/ (r.err = TRUE /\ Deaf(r)))
           /\ CanSend(w) => Sent(r)
           /\ r.err = TRUE \/ r.se.sock # NoSock
<1>1. /\ Base(r) /\ Held(w, r) /\ More(w, r)
      /\ r.se.tx = w.se.tx /\ r.se.sock = w.se.sock
      /\ "BINARY" \in r.se.flags <=> "BINARY" \in w.se.flags
      /\ ~CanSend(w) => r.err = TRUE /\ r.se = w.se /\ r.co = w.co
      /\ CanSend(w) => /\ r.err = FALSE /\ "HEADERSENT" \in r.se.flags
                       /\ r.co.hdrs = Min2(2, w.co.hdrs + 1)
  BY ReplyHdrFields
<1>2. CASE CanSend(w)
  <2>1. w.se.sock # NoSock /\ w.co.hdrs = 0
    BY <1>2 DEF CanSend, Whole, Fresh, Sent
  <2>2. Sent(r)
    BY <1>1, <1>2, <2>1 DEF Sent, Min2
  <2>3. QED
    BY <1>1, <1>2, <2>1, <2>2 DEF Whole, Begun, Deaf, Sent
<1>3. CASE ~CanSend(w)
  <2>1. w.co.room \in 0 .. ROOM /\ ROOM \in Nat
    BY SeTypes
  <2>2. w.se.sock # NoSock => w.co.room = ROOM /\ (w.co.peer = "reset" \/ ROOM = 0)
    BY <1>3, <2>1 DEF CanSend, Whole, Fresh, Sent
  <2>3. Whole(r)
    BY <1>1, <1>3 DEF Whole, Fresh, Sent
  <2>4. QED
    BY <1>1, <1>3, <2>2, <2>3 DEF Begun, Deaf
<1>4. QED
  BY <1>2, <1>3

LEMMA MovebinaryContract ==
    ASSUME NEW w0, Base(w0), Whole(w0), "BINARY" \in w0.se.flags,
           w0.se.sock # NoSock => w0.se.files # <<>>,
           NEW r, r = wi_movebinary(w0)
    PROVE  /\ Base(r) /\ More(w0, r) /\ Whole(r)
           /\ r.se.sock # NoSock => Begun(r) /\ "BINARY" \in r.se.flags
<1> DEFINE w    == IF "HEADERSENT" \in w0.se.flags THEN w0 ELSE wi_replyhdr(w0)
           f    == FileHead(w)
           sent == Min2(w.file[f].left, w.co.room)
           n    == w.file[f].left - sent
           u    == [w EXCEPT !.co.room = @ - sent]
           v    == [w EXCEPT !.co.room = @ - sent, !.file[f].left = @ - sent]
           z    == [u EXCEPT !.file[f].left = n]
<1>1. /\ Base(w) /\ More(w0, w) /\ Whole(w) /\ w.se.tx = {} /\ w.se.sock = w0.se.sock
      /\ w.se.files = w0.se.files /\ "BINARY" \in w.se.flags
      /\ w.se.sock # NoSock => Begun(w)
  <2>1. CASE "HEADERSENT" \in w0.se.flags
    BY <2>1, MoreSelf DEF Whole, Fresh, Begun, Deaf
  <2>2. CASE "HEADERSENT" \notin w0.se.flags
    BY <2>2, HeaderTried DEF Whole, Held
  <2>3. QED
    BY <2>1, <2>2
<1>2. r = IF w.se.sock = NoSock \/ w.co.peer = "reset" THEN Fail(w)
          ELSE IF sent = w.file[f].left THEN wi_txdone(wi_fclose(u)) ELSE Ok(v)
  BY DEF wi_movebinary
<1> HIDE DEF w
<1>3. CASE w.se.sock = NoSock \/ w.co.peer = "reset"
  <2>1. r = Fail(w)
    BY <1>2, <1>3
  <2>2. Base(r) /\ r.se = w.se /\ r.co = w.co /\ More(w, r)
    BY <1>1, <2>1, ErrFields
  <2>3. More(w0, r)
    BY <1>1, <2>2, MoreTrans
  <2>4. QED
    BY <1>1, <2>2, <2>3 DEF Whole, Begun, Deaf, Fresh, Sent
<1>4. CASE ~(w.se.sock = NoSock \/ w.co.peer = "reset")
  <2>1. /\ w \in WorkSet /\ w.se.files # <<>>
        /\ f \in FileSlot /\ f \in Own(w)
        /\ w.file[f].left \in Nat /\ w.co.room \in Nat
    <3>1. w \in WorkSet /\ w.se.files # <<>> /\ f \in FileSlot /\ f \in Own(w)
      BY <1>1, <1>4, OwnInTable DEF Base
    <3>2. w.file[f].left \in Nat /\ w.co.room \in Nat
      BY <3>1, UnitsAssumption DEF WorkSet, WiFile, Connection
    <3>3. QED
      BY <3>1, <3>2
  <2>2. sent \in Nat /\ sent <= w.co.room /\ n \in Nat
    <3>1. sent \in Nat /\ sent <= w.co.room /\ sent <= w.file[f].left
      <4> HIDE DEF f
      <4>1. QED
        BY <2>1, Min2Range
    <3>2. QED
      BY <2>1, <3>1
  <2>3. v = z
    <3> HIDE DEF f, sent
    <3>1. v = [[w EXCEPT !.co.room = @ - sent] EXCEPT !.file[f].left = n]
      BY <2>1 DEF WorkSet
    <3>2. QED
      BY <3>1
  <2> HIDE DEF sent, f
  <2>5. /\ Base(u) /\ Held(w, u) /\ More(w, u) /\ u.se = w.se
        /\ u.co.hdrs = w.co.hdrs /\ u.co.req = w.co.req /\ u.co.peer = w.co.peer
        /\ u.co.room = w.co.room - sent
    BY <1>1, <2>2, RoomFields
  <2>4. Sent(w) \/ (Fresh(w) /\ ROOM = 0 /\ u.co.room = ROOM)
    BY <1>1, <1>4, <2>1, <2>2, <2>5 DEF Begun, Deaf, Whole, Fresh
  <2> HIDE DEF n, u, v
  <2>6. u.se.files # <<>> /\ Own(u) = Own(w) /\ More(w0, u)
    BY <1>1, <2>1, <2>5, MoreTrans DEF Own
  <2>7. CASE r = Ok(z)
    <3>1. Base(z) /\ More(u, z) /\ z.se = u.se /\ z.co = u.co
      BY <2>1, <2>2, <2>5, <2>6, LeftFields
    <3> HIDE DEF z
    <3>2. Base(r) /\ More(z, r) /\ r.se = z.se /\ r.co = z.co
      BY <2>7, <3>1, ErrFields
    <3>3. More(w0, r)
      BY <2>5, <2>6, <3>1, <3>2, MoreTrans
    <3>4. QED
      BY <1>1, <2>4, <2>5, <3>1, <3>2, <3>3 DEF Whole, Begun, Deaf, Sent, Fresh
  <2>8. CASE r = wi_txdone(wi_fclose(u))
    <3> DEFINE t == wi_fclose(u)
    <3>1. Base(t) /\ More(u, t) /\ t.co = u.co /\ t.se.tx = {} /\ t.co.hdrs <= 1
      BY <1>1, <2>5, <2>6, FcloseFields DEF Whole
    <3>2. r = wi_txdone(t)
      BY <2>8
    <3> HIDE DEF t
    <3>3. Base(r) /\ More(t, r) /\ Over(r) /\ Whole(r)
      BY <3>1, <3>2, EndingFields
    <3>4. QED
      BY <2>5, <2>6, <3>1, <3>3, MoreTrans DEF Over
  <2>9. QED
    BY <1>2, <1>4, <2>3, <2>7, <2>8
<1>5. QED
  BY <1>3, <1>4

\* The text queued is sent as far as the socket takes it, after the header.
LEMMA SendChainContract ==
    ASSUME NEW w, Base(w), Whole(w), "BINARY" \notin w.se.flags,
           w.se.sock # NoSock => Sent(w),
           NEW r, r = SendChain(w)
    PROVE  /\ Base(r) /\ More(w, r) /\ Whole(r)
           /\ r.se.sock # NoSock => Sent(r) /\ r.se.tx # {}
           /\ w.co.room > 0 => r.err = TRUE \/ Over(r) \/ r.se.idle = 0
<1> DEFINE sent == Min2(Cardinality(w.se.tx), w.co.room)
           x    == IF sent > 0 THEN 0 ELSE w.se.idle
           S    == FirstSlots(w.se.tx, sent)
           t    == [w EXCEPT !.co.room = @ - sent]
           u    == SetIdle(t, x)
           w2   == wi_txfree(u, S)
<1>1. /\ w \in WorkSet /\ w.se.tx \subseteq TxSlot
      /\ w.se.idle \in 0 .. TMO + 1 /\ w.co.room \in Nat
      /\ Cardinality(w.se.tx) \in Nat
  BY SeTypes, TableCount, UnitsAssumption DEF WorkSet, WiSess, Connection
<1>2. sent \in Nat /\ sent <= w.co.room
  BY <1>1, Min2Range
<1>3. w.se.tx # {} /\ w.co.room > 0 => sent > 0
  <2>1. w.se.tx # {} => Cardinality(w.se.tx) # 0
    <3>1. IsFiniteSet(w.se.tx)
      <4>1. IsFiniteSet(TxSlot)
        BY SlotsAssumption, FS_Interval DEF TxSlot
      <4>2. QED
        BY <1>1, <4>1, FS_Subset
    <3>2. QED
      BY <3>1, FS_EmptySet
  <2>2. QED
    BY <1>1, <2>1 DEF Min2
<1> HIDE DEF sent
<1>4. x \in 0 .. TMO + 1 /\ x \in {w.se.idle, 0} /\ (sent > 0 => x = 0)
  BY <1>1, <1>2, UnitsAssumption
<1>5. S \in SUBSET w.se.tx
  BY DEF FirstSlots
<1> HIDE DEF x, S
<1>6. [w EXCEPT !.co.room = @ - sent, !.se.idle = x] = u
  BY <1>1 DEF WorkSet, SetIdle
<1>7. r = IF w.se.tx = {} THEN wi_txdone(w)
          ELSE IF w.se.sock = NoSock \/ w.co.peer = "reset" THEN Fail(w)
          ELSE IF w2.se.tx = {} THEN wi_txdone(w2)
          ELSE Ok(w2)
  <2>1. wi_txfree([w EXCEPT !.co.room = @ - sent, !.se.idle = x], S) = w2
    BY <1>6
  <2>2. wi_txfree([w EXCEPT !.co.room = @ - sent, !.se.idle = IF sent > 0 THEN 0 ELSE @], S) = w2
    BY <2>1 DEF x
  <2>3. QED
    BY <2>2, SMTT(30) DEF SendChain, sent, S
<1>8. /\ Base(t) /\ More(w, t) /\ t.se = w.se
      /\ t.co.hdrs = w.co.hdrs
  BY <1>2, RoomFields
<1> HIDE DEF t
<1>9. /\ Base(u) /\ More(t, u) /\ u.co = t.co /\ u.se.idle = x
      /\ u.se.tx = w.se.tx /\ u.se.flags = w.se.flags /\ u.se.sock = w.se.sock
  BY <1>4, <1>8, SetIdleFields
<1> HIDE DEF u
<1>10. /\ Base(w2) /\ Held(u, w2) /\ More(u, w2) /\ w2.co = u.co
       /\ w2.se.flags = w.se.flags /\ w2.se.sock = w.se.sock
  BY <1>5, <1>9, TxfreeFields
<1> HIDE DEF w2
<1>11. More(w, w2) /\ w2.co.hdrs = w.co.hdrs /\ w2.se.idle = x
  BY <1>8, <1>9, <1>10, MoreTrans DEF Held
<1>12. CASE w.se.tx = {}
  <2>1. r = wi_txdone(w) /\ w.co.hdrs <= 1
    BY <1>7, <1>12 DEF Whole
  <2>2. QED
    BY <1>12, <2>1, EndingFields DEF Over
<1>13. CASE w.se.tx # {} /\ (w.se.sock = NoSock \/ w.co.peer = "reset")
  <2>1. r = Fail(w)
    BY <1>7, <1>13
  <2>2. Base(r) /\ r.se = w.se /\ r.co = w.co /\ More(w, r) /\ r.err = TRUE
    BY <2>1, ErrFields, ErrStep
  <2>3. QED
    BY <1>13, <2>2 DEF Whole, Sent, Fresh
<1>14. CASE w.se.tx # {} /\ ~(w.se.sock = NoSock \/ w.co.peer = "reset") /\ w2.se.tx = {}
  <2>1. r = wi_txdone(w2) /\ w2.co.hdrs <= 1
    BY <1>7, <1>11, <1>14 DEF Whole
  <2>2. Base(r) /\ More(w2, r) /\ Over(r) /\ Whole(r)
    BY <1>10, <1>14, <2>1, EndingFields
  <2>3. QED
    BY <1>10, <1>11, <2>2, MoreTrans DEF Over
<1>15. CASE w.se.tx # {} /\ ~(w.se.sock = NoSock \/ w.co.peer = "reset") /\ w2.se.tx # {}
  <2>1. r = Ok(w2)
    BY <1>7, <1>15
  <2>2. Base(r) /\ More(w2, r) /\ r.se = w2.se /\ r.co = w2.co
    BY <1>10, <2>1, ErrFields
  <2>3. Sent(r) /\ Whole(r)
    BY <1>10, <1>11, <1>15, <2>2 DEF Sent, Whole
  <2>4. w.co.room > 0 => r.se.idle = 0
    BY <1>3, <1>4, <1>11, <1>15, <2>2
  <2>5. QED
    BY <1>10, <1>11, <1>15, <2>2, <2>3, <2>4, MoreTrans
<1>16. QED
  BY <1>12, <1>13, <1>14, <1>15

\* What is sent keeps the accounts, and after it the reply was begun.
LEMMA SockwriteContract ==
    ASSUME NEW w, Base(w), Ready(w), Whole(w), NEW r, r = wi_sockwrite(w)
    PROVE  /\ Base(r) /\ Ready(r) /\ More(w, r) /\ Whole(r) /\ (Over(r) \/ Same(w, r))
           /\ r.se.sock # NoSock => Begun(r) /\ (Loaded(r) \/ Deaf(r))
           /\ "HEADERSENT" \in w.se.flags /\ "BINARY" \notin w.se.flags /\ w.co.room > 0 =>
                 r.err = TRUE \/ Over(r) \/ r.se.idle = 0
<1>1. Base(r) /\ Ready(r) /\ (Over(r) \/ Same(w, r))
  BY SockwriteStep DEF Step, Keeps
<1>2. CASE "BINARY" \in w.se.flags
  <2>1. r = wi_movebinary(w) /\ (w.se.sock # NoSock => w.se.files # <<>>)
    BY <1>2 DEF wi_sockwrite, Ready
  <2>2. More(w, r) /\ Whole(r) /\ (r.se.sock # NoSock => Begun(r) /\ "BINARY" \in r.se.flags)
    BY <1>2, <2>1, MovebinaryContract
  <2>3. QED
    BY <1>1, <1>2, <2>2 DEF Loaded
<1>3. CASE "BINARY" \notin w.se.flags /\ "HEADERSENT" \in w.se.flags
  <2>1. r = SendChain(w) /\ (w.se.sock # NoSock => Sent(w))
    BY <1>3 DEF wi_sockwrite, Whole, Fresh
  <2>2. /\ More(w, r) /\ Whole(r)
        /\ r.se.sock # NoSock => Sent(r) /\ r.se.tx # {}
        /\ w.co.room > 0 => r.err = TRUE \/ Over(r) \/ r.se.idle = 0
    BY <1>3, <2>1, SendChainContract
  <2>3. QED
    BY <1>1, <2>2 DEF Loaded, Begun, Deaf
<1>4. CASE "BINARY" \notin w.se.flags /\ "HEADERSENT" \notin w.se.flags
  <2> DEFINE h == wi_replyhdr(w)
  <2>1. r = IF h.err THEN Fail(h) ELSE SendChain(h)
    BY <1>4 DEF wi_sockwrite
  <2>2. /\ Base(h) /\ More(w, h) /\ Whole(h)
        /\ h.se.tx = w.se.tx /\ h.se.sock = w.se.sock /\ "BINARY" \notin h.se.flags
        /\ w.se.sock # NoSock => Begun(h) /\ ((h.err = FALSE /\ Sent(h)) \/ (h.err = TRUE /\ Deaf(h)))
    BY <1>4, HeaderTried
  <2> HIDE DEF h
  <2>3. h.err \in BOOLEAN
    BY <2>2, SeTypes
  <2>4. CASE h.err = TRUE
    <3>1. r = Fail(h)
      BY <2>1, <2>4
    <3>2. Base(r) /\ r.se = h.se /\ r.co = h.co /\ More(h, r) /\ r.err = TRUE
      BY <2>2, <3>1, ErrFields, ErrStep
    <3>3. Whole(r) /\ (r.se.sock # NoSock => Begun(r) /\ (Loaded(r) \/ Deaf(r)))
      <4>1. w.se.sock # NoSock => Deaf(h)
        BY <2>2, <2>4
      <4>2. QED
        BY <2>2, <3>2, <4>1 DEF Whole, Begun, Sent, Fresh, Loaded, Deaf
    <3>4. QED
      BY <1>1, <1>4, <2>2, <3>2, <3>3, MoreTrans
  <2>5. CASE h.err = FALSE
    <3>1. r = SendChain(h) /\ (h.se.sock # NoSock => Sent(h))
      BY <2>1, <2>2, <2>5
    <3>2. /\ More(h, r) /\ Whole(r)
          /\ r.se.sock # NoSock => Sent(r) /\ r.se.tx # {}
      BY <2>2, <3>1, SendChainContract
    <3>3. QED
      BY <1>1, <1>4, <2>2, <3>2, MoreTrans DEF Loaded, Begun, Deaf
  <2>6. QED
    BY <2>3, <2>4, <2>5
<1>5. QED
  BY <1>2, <1>3, <1>4

\* The reply is started: it is begun, with something to send, or it failed.
LEMMA StartSendContract ==
    ASSUME NEW w, Base(w), w.se.sock # NoSock, Whole(w),
           "BINARY" \in w.se.flags => w.se.files # <<>> /\ w.file[FileHead(w)].kind = "BINARY",
           NEW r, r = StartSend(w)
    PROVE  /\ Base(r) /\ More(w, r) /\ Whole(r)
           /\ r.se.state \in {"SENDDATA", "ENDING"} /\ Replying(r)
<1> DEFINE u == SetState(w, "SENDDATA")
<1>1. /\ Base(u) /\ Held(w, u) /\ More(w, u) /\ u.co = w.co
      /\ u.se.state = "SENDDATA"
      /\ u.se.tx = w.se.tx /\ u.se.flags = w.se.flags /\ u.se.sock = w.se.sock
  BY SetStateFields, "SENDDATA" \in State DEF State
<1>2. r = wi_sockwrite(u)
  BY DEF StartSend, SetState
<1> HIDE DEF u
<1>3. Ready(u) /\ Whole(u)
  BY <1>1 DEF Ready, Whole, Fresh, Sent, FileHead, Held
<1>4. /\ Base(r) /\ More(u, r) /\ Whole(r) /\ (Over(r) \/ Same(u, r))
      /\ r.se.sock # NoSock => Begun(r) /\ (Loaded(r) \/ Deaf(r))
  BY <1>1, <1>2, <1>3, SockwriteContract
<1>5. r.se.state \in {"SENDDATA", "ENDING"}
  BY <1>1, <1>4 DEF Over, Same
<1>6. QED
  BY <1>1, <1>3, <1>4, <1>5, MoreTrans DEF Replying

LEMMA BadformContract ==
    ASSUME NEW w, Base(w), Ready(w), Whole(w), "BINARY" \in w.se.flags => w.se.sock = NoSock,
           NEW r, r = wi_badform(w)
    PROVE  Base(r) /\ More(w, r) /\ Whole(r) /\ (Over(r) \/ Same(w, r))
<1> DEFINE u == IF w.se.state = "ENDING" \/ w.se.tx # {} THEN w ELSE wi_txalloc(w, 1)
<1>1. r = wi_sockwrite(u)
  BY DEF wi_badform
<1>2. /\ Base(u) /\ Held(w, u) /\ More(w, u) /\ u.co = w.co /\ u.se.flags = w.se.flags
      /\ u.se.sock = w.se.sock /\ u.se.state = w.se.state
      /\ w.se.sock = NoSock => u.se.tx = w.se.tx
  <2>1. CASE w.se.state = "ENDING" \/ w.se.tx # {}
    BY <2>1, MoreSelf DEF Held
  <2>2. CASE ~(w.se.state = "ENDING" \/ w.se.tx # {})
    <3>1. u = wi_txalloc(w, 1) /\ w.se.sock # NoSock
      BY <2>2 DEF Base
    <3> HIDE DEF u
    <3>2. /\ Base(u) /\ Held(w, u) /\ More(w, u) /\ u.co = w.co /\ u.se.flags = w.se.flags
          /\ u.se.sock = w.se.sock /\ u.se.state = w.se.state
      BY <3>1, TxallocFields, 1 \in Nat
    <3>3. QED
      BY <3>1, <3>2
  <2>3. QED
    BY <2>1, <2>2
<1> HIDE DEF u
<1>3. Ready(u) /\ Whole(u) /\ Same(w, u)
  BY <1>2 DEF Ready, Whole, Fresh, Sent, FileHead, Held, Same
<1>4. Base(r) /\ More(u, r) /\ Whole(r) /\ (Over(r) \/ Same(u, r))
  BY <1>1, <1>2, <1>3, SockwriteContract
<1>5. Over(r) \/ Same(w, r)
  BY <1>3, <1>4 DEF Same
<1>6. QED
  BY <1>2, <1>4, <1>5, MoreTrans

\* A form routine names another file, and nothing of the reply was sent; or it is over.
LEMMA RedirectContract ==
    ASSUME NEW w, Base(w), w.se.sock # NoSock, Len(w.se.files) = 1, w.se.files # <<>>,
           Fresh(w), w.se.tx = {}, "BINARY" \notin w.se.flags,
           NEW r, r = wi_redirect(w)
    PROVE  /\ Base(r) /\ More(w, r)
           /\ \/ r.err = TRUE /\ Over(r) /\ Whole(r)
              \/ /\ r.err = FALSE /\ r.se.sock = w.se.sock /\ r.se.state = "CONTENT"
                 /\ Fresh(r) /\ TextOnly(r) /\ r.se.files # <<>> /\ "BINARY" \notin r.se.flags
                 /\ r.file[FileHead(r)].left # 0
<1> DEFINE x  == 0
           u  == SetIdle(w, x)
           w1 == wi_fclose(u)
           e  == wi_senderr(w1)
           kind == "TEXT"
           left == 1
           st == "CONTENT"
           w2 == wi_fopen(w1, kind, left)
           v  == SetState(w2, st)
           y  == w2.se.flags \ {"HEADERSENT"}
           z  == SetFlags(v, y)
<1>1. /\ x \in 0 .. TMO + 1 /\ x \in {w.se.idle, 0} /\ x = 0
      /\ kind = "TEXT" /\ left \in Nat \ {0} /\ st = "CONTENT" /\ st \in State
  BY UnitsAssumption DEF State
<1>0. w1 = wi_fclose(u) /\ e = wi_senderr(w1) /\ w2 = wi_fopen(w1, kind, left)
  OBVIOUS
<1>2. r = IF w2.err \/ w.co.req.form = "missing" THEN Fail(e)
          ELSE [w2 EXCEPT !.se.state = st, !.se.flags = @ \ {"HEADERSENT"}]
  BY DEF wi_redirect, SetIdle
<1> HIDE DEF x, kind, left, st, w1, w2, e
<1>3. /\ Base(u) /\ More(w, u) /\ u.co = w.co /\ u.file = w.file /\ u.se.idle = 0
      /\ u.se.tx = {} /\ u.se.flags = w.se.flags /\ u.se.files = w.se.files
      /\ u.se.sock = w.se.sock /\ u.se.files # <<>>
  BY <1>1, SetIdleFields
<1> HIDE DEF u
<1>4. /\ Base(w1) /\ More(u, w1) /\ w1.co = w.co /\ w1.se.idle = 0
      /\ w1.se.tx = {} /\ w1.se.flags = w.se.flags /\ w1.se.sock = w.se.sock
      /\ Len(w1.se.files) = 0
  <2>1. Base(u) /\ u.se.files # <<>> /\ w1 = wi_fclose(u) /\ Len(u.se.files) = 1
    BY <1>0, <1>3
  <2>2. /\ Base(w1) /\ More(u, w1) /\ w1.co = u.co /\ w1.se.idle = u.se.idle
        /\ w1.se.tx = u.se.tx /\ w1.se.flags = u.se.flags /\ w1.se.sock = u.se.sock
    BY <2>1, FcloseFields
  <2>3. Len(w1.se.files) = Len(u.se.files) - 1
    BY <2>1, FcloseFields
  <2>4. QED
    BY <1>3, <2>1, <2>2, <2>3
<1>5. More(w, w1) /\ w1.co.hdrs = 0 /\ Own(w1) = {}
  BY <1>3, <1>4, MoreTrans DEF Fresh, Own
<1>6. CASE w2.err \/ w.co.req.form = "missing"
  <2>1. Base(e) /\ More(w1, e) /\ Over(e) /\ Whole(e)
    <3>1. w1.co.hdrs <= 1 /\ (w1.se.sock # NoSock => w1.co.hdrs = 0)
      BY <1>5
    <3>2. QED
      BY <1>0, <1>4, <3>1, EndingFields
  <2>2. r = Fail(e)
    BY <1>2, <1>6
  <2>3. Base(r) /\ r.se = e.se /\ r.co = e.co /\ More(e, r) /\ r.err = TRUE
    BY <2>1, <2>2, ErrFields, ErrStep
  <2>4. Over(r) /\ Whole(r)
    BY <2>1, <2>3 DEF Over, Whole
  <2>5. QED
    BY <1>4, <1>5, <2>1, <2>3, <2>4, MoreTrans
<1>7. CASE ~(w2.err \/ w.co.req.form = "missing")
  <2>1. /\ Base(w2) /\ Even(w1, w2) /\ w2.co = w1.co /\ w2.err = FALSE
        /\ w2.se.idle = w1.se.idle /\ w2.se.flags = w1.se.flags
        /\ w2.se.sock = w1.se.sock /\ w2.se.files # <<>>
        /\ Own(w2) = {FileHead(w2)} \cup Own(w1)
        /\ w2.file[FileHead(w2)].kind = kind /\ w2.file[FileHead(w2)].left # 0
    <3>1. (w2 = Fail(w1) /\ w2.err = TRUE) \/ OpenedAbove(w1, w2, kind, left)
      BY <1>0, <1>1, <1>4, FopenFields
    <3>2. OpenedAbove(w1, w2, kind, left)
      BY <1>7, <3>1
    <3>3. QED
      BY <1>1, <3>2 DEF OpenedAbove
  <2>2. /\ Base(v) /\ Held(w2, v) /\ More(w2, v) /\ v.co = w2.co /\ v.err = w2.err
        /\ v.se.state = "CONTENT" /\ v.se.flags = w2.se.flags /\ v.se.sock = w2.se.sock
    BY <1>1, <1>4, <2>1, SetStateFields
  <2>3. w2 \in WorkSet /\ w2.se.flags \subseteq {"BINARY", "HEADERSENT"}
    BY <2>1, SeTypes
  <2>4. r = z
    <3>1. r = [w2 EXCEPT !.se.state = st, !.se.flags = @ \ {"HEADERSENT"}]
      BY <1>2, <1>7, <2>1
    <3>2. QED
      BY <2>3, <3>1 DEF WorkSet, WiSess, SetState, SetFlags
  <2> HIDE DEF v
  <2>5. y \in SUBSET {"BINARY", "HEADERSENT"} /\ "HEADERSENT" \notin y /\ "BINARY" \notin y
    BY <1>4, <2>1, <2>3
  <2> HIDE DEF y
  <2>6. /\ Base(r) /\ Held(v, r) /\ More(v, r) /\ r.co = v.co /\ r.err = v.err
        /\ r.se.flags = y /\ r.se.state = v.se.state /\ r.se.sock = v.se.sock
    BY <2>2, <2>4, <2>5, SetFlagsFields
  <2>7. /\ Fresh(r) /\ TextOnly(r) /\ r.se.files # <<>> /\ r.se.idle = 0
        /\ r.file[FileHead(r)].left # 0
    <3>1. Fresh(r)
      BY <1>3, <1>4, <2>1, <2>2, <2>5, <2>6 DEF Fresh
    <3>2. r.se.files = w2.se.files /\ r.file = w2.file /\ r.se.idle = 0
      BY <1>4, <2>1, <2>2, <2>6 DEF Held
    <3>3. Own(r) = {FileHead(w2)}
      BY <1>5, <2>1, <3>2, ZenonT(60) DEF Own
    <3>4. QED
      BY <1>1, <2>1, <3>1, <3>2, <3>3 DEF TextOnly, FileHead
  <2>8. Even(w1, r)
    BY <2>1, <2>2, <2>6, EvenTrans DEF More
  <2>9. More(w, r)
    BY <1>4, <1>5, <2>8, ActiveMore DEF More
  <2>10. QED
    BY <1>4, <2>1, <2>2, <2>5, <2>6, <2>7, <2>9
<1>8. QED
  BY <1>6, <1>7

\* An included file adds text at most, and is closed unless the txbufs ran out.
LEMMA SsiContract ==
    ASSUME NEW w, Base(w), w.se.files # <<>>, w.se.sock # NoSock, w.co.req.ssi # 0,
           NEW r, r = wi_ssi(w)
    PROVE  /\ Base(r) /\ Parsed(w, r) /\ r.co = w.co /\ r.se.idle = w.se.idle
           /\ r.se.flags = w.se.flags /\ r.se.state = w.se.state /\ r.se.sock = w.se.sock
           /\ w.se.tx \subseteq r.se.tx /\ r.se.files # <<>>
           /\ TextOnly(w) => TextOnly(r)
<1> DEFINE kind == "TEXT"
           left == 0
           k    == w.co.req.ssi
           args == w.co.req.args
           w0   == IF args = "none" THEN w ELSE wi_buildform(w, args)
           w1   == wi_fopen(w0, kind, left)
           w2   == wi_txalloc(w1, k)
           w3   == wi_fclose(w2)
<1>1. r = IF w1.err THEN w1 ELSE IF w2.err THEN w2 ELSE w3
  BY DEF wi_ssi
<1>2. left \in Nat /\ k \in Nat /\ kind = "TEXT"
  BY RequestTypes
<1>0. w1 = wi_fopen(w0, kind, left) /\ w2 = wi_txalloc(w1, k) /\ w3 = wi_fclose(w2)
  OBVIOUS
\* The directive's own pairs are made a form.
<1>6. /\ Base(w0) /\ Parsed(w, w0) /\ w0.co = w.co /\ w0.file = w.file
      /\ w0.se.idle = w.se.idle /\ w0.se.files = w.se.files /\ w0.se.tx = w.se.tx
      /\ w0.se.flags = w.se.flags /\ w0.se.state = w.se.state /\ w0.se.sock = w.se.sock
  <2>1. CASE args = "none"
    <3>1. w0 = w
      BY <2>1
    <3> HIDE DEF w0
    <3>2. QED
      BY <3>1, ParsedSelf
  <2>2. CASE args # "none"
    <3>1. w0 = wi_buildform(w, args)
      BY <2>2
    <3>2. w.co.req.ssi > 0
      BY RequestTypes
    <3>3. args = "bad" => BadPairs(w.co.req)
      BY <3>2 DEF BadPairs
    <3> HIDE DEF w0, args
    <3>4. QED
      BY <3>1, <3>3, BuildformParsed
  <2>3. QED
    BY <2>1, <2>2
<1> HIDE DEF kind, left, k, args, w0, w1, w2, w3
<1>7. Own(w0) = Own(w) /\ (TextOnly(w) => TextOnly(w0))
  BY <1>6 DEF Own, TextOnly
<1>3. CASE w1 = Fail(w0)
  <2>1. /\ Base(w1) /\ w1.se = w0.se /\ w1.co = w0.co /\ Held(w0, w1) /\ Even(w0, w1)
        /\ w1.err = TRUE
    BY <1>3, <1>6, ErrFields, ErrStep DEF More
  <2>2. r = w1
    BY <1>1, <2>1
  <2>3. Own(w1) = Own(w0) /\ w1.file = w0.file
    BY <2>1 DEF Held, Own
  <2>4. Parsed(w, r)
    BY <1>6, <2>1, <2>2, EvenParsed
  <2>5. QED
    BY <1>6, <1>7, <2>1, <2>2, <2>3, <2>4 DEF TextOnly
<1>4. CASE w1 # Fail(w0)
  <2>1. /\ Base(w1) /\ Even(w0, w1) /\ w1.co = w.co /\ w1.err = FALSE
        /\ w1.se.idle = w.se.idle /\ w1.se.tx = w.se.tx /\ w1.se.flags = w.se.flags
        /\ w1.se.sock = w.se.sock /\ w1.se.state = w.se.state
        /\ FileRest(w1) = w.se.files /\ w1.se.files # <<>>
        /\ Own(w1) = {FileHead(w1)} \cup Own(w)
        /\ w1.file[FileHead(w1)].kind = kind
        /\ \A f \in Own(w) : w1.file[f] = w.file[f]
    <3>1. (w1 = Fail(w0) /\ w1.err = TRUE) \/ OpenedAbove(w0, w1, kind, left)
      BY <1>0, <1>2, <1>6, FopenFields
    <3>2. OpenedAbove(w0, w1, kind, left)
      BY <1>4, <3>1
    <3>3. QED
      BY <1>6, <1>7, <3>2 DEF OpenedAbove
  <2>2. /\ Base(w2) /\ Held(w1, w2) /\ More(w1, w2) /\ w2.co = w1.co
        /\ w1.se.tx \subseteq w2.se.tx /\ w2.se.flags = w1.se.flags
        /\ w2.se.sock = w1.se.sock /\ w2.se.state = w1.se.state
    <3>1. Base(w1) /\ k \in Nat /\ w2 = wi_txalloc(w1, k)
      BY <1>0, <1>2, <2>1
    <3>2. QED
      BY <3>1, TxallocFields
  <2>3. /\ w2.se.files # <<>> /\ FileRest(w2) = w.se.files /\ Own(w2) = Own(w1)
        /\ TextOnly(w) => TextOnly(w2)
    <3>1. w2.se.files = w1.se.files /\ w2.file = w1.file
      BY <2>2 DEF Held
    <3>2. Own(w2) = Own(w1)
      BY <3>1 DEF Own
    <3>3. TextOnly(w) => TextOnly(w2)
      BY <1>2, <2>1, <3>1, <3>2 DEF TextOnly
    <3>4. QED
      BY <2>1, <3>1, <3>2, <3>3 DEF FileRest
  <2>4. /\ Base(w3) /\ More(w2, w3) /\ w3.co = w2.co
        /\ w3.se.idle = w2.se.idle /\ w3.se.tx = w2.se.tx /\ w3.se.flags = w2.se.flags
        /\ w3.se.sock = w2.se.sock /\ w3.se.state = w2.se.state
        /\ w3.se.files = FileRest(w2)
        /\ Own(w2) = {FileHead(w2)} \cup Own(w3)
        /\ \A f \in Own(w3) : w3.file[f] = w2.file[f]
    BY <1>0, <2>2, <2>3, FcloseFields
  <2>5. TextOnly(w2) => TextOnly(w3)
    BY <2>4 DEF TextOnly
  <2>6. Parsed(w, w2) /\ Parsed(w, w3)
    <3>1. Even(w0, w2) /\ Even(w0, w3)
      BY <2>1, <2>2, <2>4, EvenTrans DEF More
    <3>2. QED
      BY <1>6, <3>1, EvenParsed
  <2>7. r = w2 \/ r = w3
    BY <1>1, <2>1
  <2>8. QED
    BY <2>1, <2>2, <2>3, <2>4, <2>5, <2>6, <2>7 DEF Held
<1>5. QED
  BY <1>3, <1>4

----------------------------------------------------------------------------
(* Reading *)

\* A session that reads text files, of whose reply nothing was sent.
Reading(w) ==
    /\ Base(w) /\ w.se.sock # NoSock /\ w.se.state = "CONTENT"
    /\ "BINARY" \notin w.se.flags /\ Fresh(w) /\ TextOnly(w)

LEMMA ReadingReplies ==
    ASSUME NEW w, Reading(w), NEW r, r = Ok(w) \/ r = Fail(w)
    PROVE  /\ Base(r) /\ More(w, r) /\ Whole(r) /\ Replying(r)
           /\ r.se.state = "CONTENT"
<1>1. Base(r) /\ r.se = w.se /\ r.co = w.co /\ r.file = w.file /\ More(w, r)
  BY ErrFields DEF Held, Reading
<1>2. Fresh(r) /\ TextOnly(r) /\ r.se.state = "CONTENT" /\ "BINARY" \notin r.se.flags
  BY <1>1 DEF Reading, Fresh, TextOnly, Own
<1>3. Whole(r)
  BY <1>1, <1>2 DEF Reading, Whole, Fresh
<1>4. QED
  BY <1>1, <1>2, <1>3 DEF Replying

LEMMA ReadingClose ==
    ASSUME NEW w, Reading(w), w.se.files # <<>>, NEW r, r = wi_fclose(w)
    PROVE  Reading(r) /\ More(w, r) /\ r.se.tx = w.se.tx
<1>1. /\ Base(r) /\ More(w, r) /\ r.co = w.co
      /\ r.se.tx = w.se.tx /\ r.se.flags = w.se.flags
      /\ r.se.sock = w.se.sock /\ r.se.state = w.se.state
      /\ Own(w) = {FileHead(w)} \cup Own(r)
      /\ \A f \in Own(r) : r.file[f] = w.file[f]
  BY FcloseFields DEF Reading
<1>2. QED
  BY <1>1 DEF Reading, Fresh, TextOnly

LEMMA ReadingSend ==
    ASSUME NEW w, Reading(w), NEW r, r = StartSend(w)
    PROVE  /\ Base(r) /\ More(w, r) /\ Whole(r)
           /\ r.se.state \in {"SENDDATA", "ENDING"} /\ Replying(r)
<1>1. Whole(w) /\ Base(w) /\ w.se.sock # NoSock /\ "BINARY" \notin w.se.flags
  BY DEF Reading, Whole, Fresh
<1>2. QED
  BY <1>1, StartSendContract

\* The page is read into txbufs; the clock is reset.
LEMMA ReadingPage ==
    ASSUME NEW w, Reading(w), w.se.files # <<>>, NEW k \in Nat \ {0},
           NEW r, r = wi_txalloc([w EXCEPT !.file[FileHead(w)].left = 0, !.se.idle = 0], k)
    PROVE  /\ Reading(r) /\ More(w, r) /\ r.se.idle = 0 /\ r.se.files = w.se.files
           /\ r.err = FALSE => r.se.tx # {}
<1> DEFINE f    == FileHead(w)
           n    == 0
           x    == 0
           t    == [w EXCEPT !.file[f].left = n]
           u    == SetIdle(t, x)
<1>1. f \in Own(w) /\ n \in Nat /\ x \in 0 .. TMO + 1 /\ x = 0 /\ w \in WorkSet /\ Base(w)
  BY OwnInTable, UnitsAssumption, SeTypes DEF Reading
<1>2. r = wi_txalloc(u, k)
  <2> HIDE DEF f
  <2>1. [w EXCEPT !.file[f].left = 0, !.se.idle = 0] = u
    BY <1>1 DEF WorkSet, SetIdle
  <2> HIDE DEF u
  <2>2. wi_txalloc([w EXCEPT !.file[f].left = 0, !.se.idle = 0], k) = wi_txalloc(u, k)
    BY <2>1
  <2>3. QED
    BY <2>2 DEF f
<1> HIDE DEF f, n, x
<1>3. /\ Base(t) /\ More(w, t) /\ t.se = w.se /\ t.co = w.co
      /\ \A g \in FileSlot : t.file[g].kind = w.file[g].kind
  BY <1>1, LeftFields
<1> HIDE DEF t
<1>4. /\ Base(u) /\ More(t, u) /\ u.co = t.co /\ u.file = t.file /\ u.se.idle = x
      /\ u.se.tx = t.se.tx /\ u.se.flags = t.se.flags /\ u.se.files = t.se.files
      /\ u.se.sock = t.se.sock /\ u.se.state = t.se.state
  <2>1. Base(t) /\ x \in 0 .. TMO + 1 /\ x \in {t.se.idle, 0} /\ u = SetIdle(t, x)
    BY <1>1, <1>3
  <2>2. QED
    BY <2>1, SetIdleFields
<1> HIDE DEF u
<1>5. /\ Base(r) /\ Held(u, r) /\ More(u, r) /\ r.co = u.co
      /\ r.se.flags = u.se.flags
      /\ r.se.sock = u.se.sock /\ r.se.state = u.se.state
      /\ r.err = FALSE => r.se.tx # {}
  <2>1. Base(u) /\ k \in Nat /\ k # 0 /\ r = wi_txalloc(u, k)
    BY <1>2, <1>4
  <2>2. /\ Base(r) /\ Held(u, r) /\ More(u, r) /\ r.co = u.co
        /\ r.se.flags = u.se.flags
        /\ r.se.sock = u.se.sock /\ r.se.state = u.se.state
    BY <2>1, TxallocFields
  <2>3. ASSUME r.err = FALSE PROVE r.se.tx # {}
    BY <2>1, <2>3, TxallocSome
  <2>4. QED
    BY <2>2, <2>3
<1>6. r.se.files = w.se.files /\ r.se.idle = 0 /\ r.file = t.file
  BY <1>1, <1>3, <1>4, <1>5 DEF Held
<1>7. TextOnly(r)
  <2>1. Own(r) = Own(w) /\ Own(w) \subseteq FileSlot
    BY <1>1, <1>6, OwnInTable DEF Own
  <2>2. QED
    BY <1>3, <1>6, <2>1 DEF Reading, TextOnly
<1>8. Reading(r)
  BY <1>3, <1>4, <1>5, <1>7 DEF Reading, Fresh
<1>9. More(w, r)
  BY <1>1, <1>3, <1>4, <1>5, MoreTrans
<1>10. QED
  BY <1>5, <1>6, <1>8, <1>9

\* Text is read; when the page is there, the reply is begun.
LEMMA ReadTextContract ==
    ASSUME NEW w, Reading(w), w.se.files # <<>>, NEW r, r = ReadText(w)
    PROVE  /\ Base(r) /\ Went(w, r) /\ Replying(r)
           /\ r.se.state \in {"CONTENT", "SENDDATA", "ENDING"}
<1> DEFINE f    == FileHead(w)
           k    == w.co.req.need
           eof  == wi_fclose(w)
           page == wi_txalloc([w EXCEPT !.file[f].left = 0, !.se.idle = 0], k)
           incl == IF w.co.req.ssi = 0 THEN page ELSE wi_ssi(page)
           all  == wi_fclose(incl)
<1>1. r = IF w.file[f].left = 0
          THEN IF eof.se.files # <<>> THEN Ok(eof) ELSE StartSend(eof)
          ELSE IF page.err THEN Fail(page)
          ELSE IF FileHead(incl) # f THEN Ok(incl)
          ELSE StartSend(all)
  BY DEF ReadText
<1>2. k \in Nat \ {0} /\ Base(w)
  BY RequestTypes DEF Reading
<1>3. /\ page = wi_txalloc([w EXCEPT !.file[FileHead(w)].left = 0, !.se.idle = 0], k)
      /\ eof = wi_fclose(w) /\ all = wi_fclose(incl)
  OBVIOUS
<1> HIDE DEF f, k, eof, page, incl, all
<1>4. Reading(eof) /\ More(w, eof)
  BY <1>3, ReadingClose
<1>5. CASE w.file[f].left = 0 /\ eof.se.files # <<>>
  <2>1. r = Ok(eof) /\ Base(eof)
    BY <1>1, <1>4, <1>5 DEF Reading
  <2>2. Base(r) /\ More(eof, r) /\ Whole(r) /\ Replying(r) /\ r.se.state = "CONTENT"
    BY <1>4, <2>1, ReadingReplies
  <2>3. More(w, r)
    BY <1>2, <1>4, <2>1, <2>2, MoreTrans
  <2>4. QED
    BY <2>2, <2>3, MoreWent
<1>6. CASE w.file[f].left = 0 /\ eof.se.files = <<>>
  <2>1. r = StartSend(eof) /\ Base(eof)
    BY <1>1, <1>4, <1>6 DEF Reading
  <2>2. /\ Base(r) /\ More(eof, r) /\ Whole(r) /\ r.se.state \in {"SENDDATA", "ENDING"}
        /\ Replying(r)
    BY <1>4, <2>1, ReadingSend
  <2>3. More(w, r)
    BY <1>2, <1>4, <2>1, <2>2, MoreTrans
  <2>4. QED
    BY <2>2, <2>3, MoreWent
<1>7. /\ Reading(page) /\ More(w, page) /\ page.se.idle = 0 /\ page.se.files # <<>>
      /\ page.err = FALSE => page.se.tx # {}
  BY <1>2, <1>3, ReadingPage
<1>8. page.err \in BOOLEAN
  BY <1>7, SeTypes DEF Reading
<1>9. CASE w.file[f].left # 0 /\ page.err = TRUE
  <2>1. r = Fail(page) /\ Base(page)
    BY <1>1, <1>7, <1>9 DEF Reading
  <2>2. Base(r) /\ More(page, r) /\ Whole(r) /\ Replying(r) /\ r.se.state = "CONTENT"
    BY <1>7, <2>1, ReadingReplies
  <2>3. More(w, r)
    BY <1>2, <1>7, <2>1, <2>2, MoreTrans
  <2>4. QED
    BY <2>2, <2>3, MoreWent
<1>10. CASE w.file[f].left # 0 /\ page.err = FALSE
  <2>1. /\ Reading(incl) /\ Went(w, incl) /\ incl.se.files # <<>> /\ incl.se.tx # {}
    <3>1. CASE w.co.req.ssi = 0
      BY <1>7, <1>10, <3>1, MoreWent DEF incl
    <3>2. CASE w.co.req.ssi # 0
      <4>1. /\ incl = wi_ssi(page) /\ Base(page) /\ page.se.sock # NoSock
            /\ page.co.req.ssi # 0
        BY <1>7, <3>2 DEF incl, Reading, More, Even
      <4>2. /\ Base(incl) /\ Parsed(page, incl) /\ incl.co = page.co
            /\ incl.se.flags = page.se.flags /\ incl.se.state = page.se.state
            /\ incl.se.sock = page.se.sock
            /\ page.se.tx \subseteq incl.se.tx /\ incl.se.files # <<>>
            /\ TextOnly(page) => TextOnly(incl)
        BY <1>7, <4>1, SsiContract
      <4>3. Reading(incl)
        BY <1>7, <4>2 DEF Reading, Fresh
      <4>4. Went(w, incl)
        BY <1>7, <4>1, <4>2, ActiveWent DEF More
      <4>5. QED
        BY <1>7, <1>10, <4>2, <4>3, <4>4
    <3>3. QED
      BY <3>1, <3>2
  <2>2. CASE FileHead(incl) # f
    <3>1. r = Ok(incl) /\ Base(incl)
      BY <1>1, <1>10, <2>1, <2>2 DEF Reading
    <3>2. Base(r) /\ More(incl, r) /\ Whole(r) /\ Replying(r) /\ r.se.state = "CONTENT"
      BY <2>1, <3>1, ReadingReplies
    <3>3. Went(w, r)
      BY <1>2, <2>1, <3>1, <3>2, WentMore
    <3>4. QED
      BY <3>2, <3>3
  <2>3. CASE FileHead(incl) = f
    <3>1. r = StartSend(all)
      BY <1>1, <1>10, <2>3
    <3>2. Reading(all) /\ More(incl, all) /\ all.se.tx # {}
      BY <1>3, <2>1, ReadingClose
    <3>3. /\ Base(r) /\ More(all, r) /\ Whole(r) /\ r.se.state \in {"SENDDATA", "ENDING"}
          /\ Replying(r)
      BY <3>1, <3>2, ReadingSend
    <3>4. Base(incl) /\ Base(all)
      BY <2>1, <3>2 DEF Reading
    <3>5. Went(w, r)
      BY <1>2, <2>1, <3>2, <3>3, <3>4, MoreTrans, WentMore
    <3>6. QED
      BY <3>3, <3>5
  <2>4. QED
    BY <2>2, <2>3
<1>11. QED
  BY <1>5, <1>6, <1>8, <1>9, <1>10

\* A form routine names the file to read, or failed and will fail again.
LEMMA ReadFormContract ==
    ASSUME NEW w, Base(w), Ready(w), Whole(w), w.se.sock # NoSock, w.se.state = "CONTENT",
           w.se.files # <<>>, "BINARY" \notin w.se.flags,
           w.file[FileHead(w)].kind = "FORM",
           (Fresh(w) /\ Waiting(w)) \/ BadForm(w),
           NEW r, r = ReadForm(w)
    PROVE  /\ Base(r) /\ Went(w, r) /\ Replying(r)
           /\ r.se.state \in {"CONTENT", "SENDDATA", "ENDING"}
<1> DEFINE v == wi_redirect(w)
           p == wi_badform(w)
           q == wi_badform(v)
           k == w.co.req.need
           t == wi_txalloc(w, k)
           z == wi_fclose(t)
<1>1. r = CASE w.co.req.form = "null"  -> Fail(w)
            [] w.co.req.form = "error" -> Fail(p)
            [] w.co.req.form = "stay"  -> StartSend(z)
            [] OTHER -> IF v.err THEN Fail(q) ELSE ReadText(v)
  BY DEF ReadForm
<1>2. /\ v = wi_redirect(w) /\ p = wi_badform(w) /\ q = wi_badform(v)
      /\ k \in Nat /\ t = wi_txalloc(w, k) /\ z = wi_fclose(t)
  BY RequestTypes
<1> HIDE DEF v, p, q, k, t, z
<1>3. Len(w.se.files) = 1
  BY DEF Waiting, BadForm
<1>4. CASE w.co.req.form = "error"
  <2>1. r = Fail(p)
    BY <1>1, <1>4
  <2>2. Base(p) /\ More(w, p) /\ Whole(p) /\ (Over(p) \/ Same(w, p))
    BY <1>2, BadformContract
  <2>3. Base(r) /\ r.se = p.se /\ r.co = p.co /\ r.file = p.file /\ More(p, r)
    BY <2>1, <2>2, ErrFields DEF Held
  <2>4. More(w, r)
    BY <2>2, <2>3, MoreTrans
  <2>5. Whole(r) /\ r.se.state \in {"CONTENT", "ENDING"}
    BY <2>2, <2>3 DEF Whole, Fresh, Sent, Over, Same
  <2>6. r.se.sock # NoSock /\ r.se.state = "CONTENT" => BadForm(r)
    <3>1. SUFFICES ASSUME r.se.sock # NoSock, r.se.state = "CONTENT" PROVE BadForm(r)
      OBVIOUS
    <3>2. Same(w, p) /\ p.co.req = w.co.req
      BY <2>2, <2>3, <3>1 DEF Over, More, Even
    <3>3. FileHead(w) \in FileSlot
      BY OwnInTable
    <3>4. QED
      BY <1>3, <1>4, <2>3, <3>2, <3>3 DEF BadForm, Same, FileHead
  <2>7. QED
    BY <2>3, <2>4, <2>5, <2>6, MoreWent DEF Replying
\* Without a routine the session is left as it was; without wi_redirect it sends what the
\* routine printed.
<1>6. CASE w.co.req.form = "null"
  <2>1. r = Fail(w) /\ Fresh(w) /\ Waiting(w)
    BY <1>1, <1>6 DEF BadForm
  <2>2. Base(r) /\ r.se = w.se /\ r.co = w.co /\ r.file = w.file /\ More(w, r)
    BY <2>1, ErrFields DEF Held
  <2>3. Fresh(r) /\ Waiting(r) /\ Whole(r)
    BY <2>1, <2>2 DEF Fresh, Waiting, Whole, FileHead
  <2>4. QED
    BY <2>2, <2>3, MoreWent DEF Replying
<1>7. CASE w.co.req.form = "stay"
  <2>1. r = StartSend(z) /\ Fresh(w)
    BY <1>1, <1>7 DEF BadForm
  <2>2. /\ Base(t) /\ Held(w, t) /\ More(w, t) /\ t.co = w.co /\ t.se.flags = w.se.flags
        /\ t.se.sock = w.se.sock
    BY <1>2, TxallocFields
  <2>3. t.se.files # <<>>
    BY <2>2 DEF Held
  <2>4. /\ Base(z) /\ More(t, z) /\ z.co = t.co /\ z.se.flags = t.se.flags
        /\ z.se.sock = t.se.sock
    BY <1>2, <2>2, <2>3, FcloseFields
  <2>5. Whole(z) /\ z.se.sock # NoSock /\ "BINARY" \notin z.se.flags
    BY <2>1, <2>2, <2>4 DEF Whole, Fresh
  <2>6. /\ Base(r) /\ More(z, r) /\ Replying(r) /\ r.se.state \in {"SENDDATA", "ENDING"}
    BY <2>1, <2>4, <2>5, StartSendContract
  <2>7. More(w, r)
    BY <2>2, <2>4, <2>6, MoreTrans
  <2>8. QED
    BY <2>6, <2>7, MoreWent
<1>5. CASE w.co.req.form \notin {"null", "error", "stay"}
  <2>1. Fresh(w) /\ w.se.tx = {}
    BY <1>5 DEF BadForm, Waiting
  <2>2. /\ Base(v) /\ More(w, v)
        /\ \/ v.err = TRUE /\ Over(v) /\ Whole(v)
           \/ /\ v.err = FALSE /\ v.se.sock = w.se.sock /\ v.se.state = "CONTENT"
              /\ Fresh(v) /\ TextOnly(v) /\ v.se.files # <<>> /\ "BINARY" \notin v.se.flags
              /\ v.file[FileHead(v)].left # 0
    BY <1>2, <1>3, <2>1, RedirectContract
  <2>3. CASE v.err = TRUE /\ Over(v) /\ Whole(v)
    <3>1. r = Fail(q) /\ Ready(v) /\ v.se.sock = NoSock
      BY <1>1, <1>5, <2>3 DEF Over, Ready
    <3>2. Base(q) /\ More(v, q) /\ Whole(q) /\ (Over(q) \/ Same(v, q))
      BY <1>2, <2>2, <2>3, <3>1, BadformContract
    <3>3. Base(r) /\ r.se = q.se /\ r.co = q.co /\ More(q, r)
      BY <3>1, <3>2, ErrFields
    <3>4. Whole(r) /\ Over(r)
      BY <2>3, <3>1, <3>2, <3>3 DEF Whole, Over, Same, More, Even
    <3>5. More(w, r)
      <4>1. More(w, q)
        BY <2>2, <3>2, MoreTrans
      <4>2. QED
        BY <3>2, <3>3, <4>1, MoreTrans
    <3>6. QED
      BY <3>3, <3>4, <3>5, MoreWent DEF Over, Replying
  <2>4. CASE /\ v.err = FALSE /\ Reading(v) /\ v.se.files # <<>>
             /\ v.file[FileHead(v)].left # 0
    <3>1. r = ReadText(v) /\ Base(v)
      BY <1>1, <1>5, <2>4 DEF Reading
    <3>2. /\ Base(r) /\ Went(v, r) /\ Replying(r) /\ v.se.sock # NoSock
          /\ r.se.state \in {"CONTENT", "SENDDATA", "ENDING"}
      BY <2>4, <3>1, ReadTextContract DEF Reading
    <3>3. QED
      BY <2>2, <2>4, <3>1, <3>2, MoreThenWent
  <2>5. QED
    BY <2>2, <2>3, <2>4 DEF Reading
<1>8. QED
  BY <1>4, <1>5, <1>6, <1>7

\* One pass over a session that reads: what it leaves can be replied, or it failed.
LEMMA ReadfileContract ==
    ASSUME NEW w, Base(w), Ready(w), Replying(w), w.se.sock # NoSock, w.se.state = "CONTENT",
           NEW r, r = wi_readfile(w)
    PROVE  /\ Base(r) /\ Went(w, r) /\ Replying(r)
           /\ r.se.state \in {"CONTENT", "SENDDATA", "PUSHING", "ENDING"}
<1> DEFINE kind == w.file[FileHead(w)].kind
           x    == 0
           st   == "PUSHING"
           u    == SetIdle(w, x)
           v    == SetState(w, st)
<1>1. x \in 0 .. TMO + 1 /\ x \in {w.se.idle, 0} /\ st \in State /\ st = "PUSHING"
  BY UnitsAssumption DEF State
<1>2. r = CASE kind = "FORM"   -> ReadForm(w)
            [] kind = "PUSH"   -> IF w.co.req.form = "null" THEN Fail(v) ELSE Ok(v)
            [] kind = "BINARY" -> StartSend(u)
            [] OTHER           -> ReadText(w)
  BY DEF wi_readfile, SetIdle, SetState
<1>3. /\ w.se.files # <<>> /\ FileHead(w) \in Own(w) /\ FileHead(w) \in FileSlot
      /\ kind \in FileKind
  <2>1. w.se.files # <<>>
    BY DEF Ready
  <2>2. FileHead(w) \in Own(w) /\ FileHead(w) \in FileSlot
    BY <2>1, OwnInTable
  <2>3. w.file[FileHead(w)] \in WiFile /\ w.file[FileHead(w)].kind # "free"
    BY <2>2 DEF Base, WorkSet
  <2>4. QED
    BY <2>1, <2>2, <2>3 DEF WiFile
<1>4. /\ kind = w.file[FileHead(w)].kind
      /\ u = SetIdle(w, x) /\ v = SetState(w, st)
  OBVIOUS
<1> HIDE DEF kind, x, st, u, v
<1>5. /\ kind # "TEXT" => ~TextOnly(w)
      /\ kind # "BINARY" => "BINARY" \notin w.se.flags
      /\ Whole(w) /\ ((Fresh(w) /\ (TextOnly(w) \/ Waiting(w))) \/ BadForm(w))
  BY <1>3, <1>4 DEF TextOnly, Ready, Replying
<1>6. CASE kind = "FORM"
  <2>1. r = ReadForm(w) /\ w.file[FileHead(w)].kind = "FORM" /\ "BINARY" \notin w.se.flags
    BY <1>2, <1>4, <1>5, <1>6
  <2>2. (Fresh(w) /\ Waiting(w)) \/ BadForm(w)
    BY <1>5, <1>6
  <2>3. QED
    BY <1>3, <1>5, <2>1, <2>2, ReadFormContract
<1>7. CASE kind = "PUSH"
  <2>1. r = Ok(v) \/ r = Fail(v)
    BY <1>2, <1>7
  <2>2. /\ Base(v) /\ More(w, v) /\ v.co = w.co /\ v.se.state = "PUSHING"
        /\ v.se.tx = w.se.tx /\ v.se.flags = w.se.flags /\ v.se.sock = w.se.sock
    BY <1>1, <1>4, SetStateFields
  <2>3. Base(r) /\ r.se = v.se /\ r.co = v.co /\ More(v, r)
    BY <2>1, <2>2, ErrFields
  <2>4. Whole(r) /\ r.se.state = "PUSHING"
    BY <1>5, <2>2, <2>3 DEF Whole, Fresh, Sent
  <2>5. More(w, r)
    BY <2>2, <2>3, MoreTrans
  <2>6. QED
    BY <2>3, <2>4, <2>5, MoreWent DEF Replying
<1>8. CASE kind = "BINARY"
  <2>1. r = StartSend(u)
    BY <1>2, <1>8
  <2>2. /\ Base(u) /\ More(w, u) /\ u.co = w.co /\ u.file = w.file
        /\ u.se.tx = w.se.tx /\ u.se.flags = w.se.flags /\ u.se.files = w.se.files
        /\ u.se.sock = w.se.sock
    BY <1>1, <1>4, SetIdleFields
  <2>3. "BINARY" \in w.se.flags
    BY <1>4, <1>5, <1>8 DEF BadForm, Waiting
  <2>4. Whole(u) /\ u.se.files # <<>> /\ u.file[FileHead(u)].kind = "BINARY"
    BY <1>3, <1>4, <1>5, <1>8, <2>2, <2>3 DEF Whole, Fresh, Sent, FileHead
  <2>5. /\ Base(r) /\ More(u, r) /\ Whole(r) /\ r.se.state \in {"SENDDATA", "ENDING"}
        /\ Replying(r)
    BY <2>1, <2>2, <2>4, StartSendContract
  <2>6. More(w, r)
    BY <2>2, <2>5, MoreTrans
  <2>7. QED
    BY <2>5, <2>6, MoreWent
<1>9. CASE kind = "TEXT"
  <2>1. r = ReadText(w)
    BY <1>2, <1>9
  <2>2. Fresh(w) /\ TextOnly(w)
    <3>1. CASE Waiting(w)
      <4>1. Own(w) = {FileHead(w)}
        <5>1. Len(w.se.files) = 1 /\ FileHead(w) = w.se.files[1]
          BY <1>3, <3>1, OwnInTable DEF Waiting
        <5>2. 1 .. 1 = {1}
          OBVIOUS
        <5>3. QED
          BY <5>1, <5>2 DEF Own
      <4>2. ~BadForm(w)
        BY <1>4, <1>9 DEF BadForm
      <4>3. QED
        BY <1>4, <1>5, <1>9, <4>1, <4>2 DEF TextOnly
    <3>2. CASE ~Waiting(w)
      BY <1>4, <1>5, <1>9, <3>2 DEF BadForm
    <3>3. QED
      BY <3>1, <3>2
  <2>3. Reading(w)
    BY <1>5, <1>9, <2>2 DEF Reading
  <2>4. QED
    BY <1>3, <2>1, <2>3, ReadTextContract
<1>10. QED
  BY <1>3, <1>6, <1>7, <1>8, <1>9 DEF FileKind

----------------------------------------------------------------------------
(* Answering *)

\* A session that ended with wi_senderr is over, however its error code is set.
LEMMA FailEnds ==
    ASSUME NEW w, Base(w), w.se.tx = {}, w.co.hdrs <= 1, w.se.sock # NoSock => w.co.hdrs = 0,
           NEW r, r = Fail(wi_senderr(w))
    PROVE  Base(r) /\ More(w, r) /\ Over(r) /\ Replying(r)
<1> DEFINE v == wi_senderr(w)
<1>1. Base(v) /\ More(w, v) /\ Over(v) /\ Whole(v)
  <2>1. v = wi_senderr(w)
    OBVIOUS
  <2> HIDE DEF v
  <2>2. QED
    BY <2>1, EndingFields
<1>2. r = Fail(v)
  OBVIOUS
<1> HIDE DEF v
<1>3. Base(r) /\ r.se = v.se /\ r.co = v.co /\ More(v, r)
  BY <1>1, <1>2, ErrFields
<1>4. More(w, r)
  BY <1>1, <1>3, MoreTrans
<1>5. QED
  BY <1>1, <1>3, <1>4 DEF Over, Whole, Replying

\* A request that was refused: its file is closed again.
LEMMA RefuseContract ==
    ASSUME NEW w, Base(w), w.se.tx = {}, w.co.hdrs = 0, w.se.files # <<>>,
           NEW r, r = Fail(wi_fclose(wi_senderr(w)))
    PROVE  Base(r) /\ More(w, r) /\ Over(r) /\ Replying(r)
<1> DEFINE v == wi_senderr(w)
           z == wi_fclose(v)
<1>1. v = wi_senderr(w) /\ z = wi_fclose(v) /\ r = Fail(z)
  OBVIOUS
<1> HIDE DEF v, z
<1>2. Base(v) /\ Held(w, v) /\ More(w, v) /\ Over(v) /\ Whole(v)
  <2>1. w.co.hdrs <= 1 /\ (w.se.sock # NoSock => w.co.hdrs = 0)
    OBVIOUS
  <2>2. QED
    BY <1>1, <2>1, EndingFields
<1>3. v.se.files # <<>>
  BY <1>2 DEF Held
<1>4. /\ Base(z) /\ More(v, z) /\ z.co = v.co
      /\ z.se.tx = v.se.tx /\ z.se.flags = v.se.flags
      /\ z.se.sock = v.se.sock /\ z.se.state = v.se.state
  BY <1>1, <1>2, <1>3, FcloseFields
<1>5. Base(r) /\ r.se = z.se /\ r.co = z.co /\ More(z, r)
  BY <1>1, <1>4, ErrFields
<1>6. More(w, r)
  <2>1. More(w, z)
    BY <1>2, <1>4, MoreTrans
  <2>2. QED
    BY <1>4, <1>5, <2>1, MoreTrans
<1>7. QED
  BY <1>2, <1>4, <1>5, <1>6 DEF Over, Whole, Replying

\* The file asked for is opened and checked, and the reply is begun where it can be.
LEMMA AnswerFileContract ==
    ASSUME NEW w, Base(w), w.se.sock # NoSock, Fresh(w), w.se.tx = {}, w.se.files = <<>>,
           NEW r, r = AnswerFile(w)
    PROVE  /\ Base(r) /\ Parsed(w, r) /\ Replying(r)
           /\ r.se.state \in {"POSTRX", "CONTENT", "SENDDATA", "PUSHING", "ENDING"}
<1> DEFINE kind == w.co.req.kind
           left == IF kind = "BINARY" THEN w.co.req.need ELSE 1
           w1   == wi_fopen(w, kind, left)
           x    == IF kind = "BINARY" THEN {"BINARY"} ELSE {}
           w2   == SetFlags(w1, x)
           s1   == "POSTRX"
           s2   == "CONTENT"
           p    == SetState(w2, s1)
           q    == SetState(w2, s2)
<1>1. r = IF w1.err THEN Fail(wi_senderr(w))
          ELSE IF ~w.co.req.auth THEN Fail(wi_fclose(wi_senderr(w1)))
          ELSE IF w.co.req.cmd = "POST" THEN p ELSE wi_readfile(q)
  BY DEF AnswerFile, SetFlags, SetState
<1>2. /\ left \in Nat \ {0} /\ w1 = wi_fopen(w, kind, left)
      /\ w2 = SetFlags(w1, x) /\ p = SetState(w2, s1) /\ q = SetState(w2, s2)
      /\ s1 = "POSTRX" /\ s2 = "CONTENT" /\ s1 \in State /\ s2 \in State
  BY RequestTypes DEF State
<1>3. x \in SUBSET {"BINARY", "HEADERSENT"} /\ ("BINARY" \in x <=> kind = "BINARY")
      /\ "HEADERSENT" \notin x
  OBVIOUS
<1> HIDE DEF kind, left, w1, x, w2, p, q, s1, s2
<1>4. (w1 = Fail(w) /\ w1.err = TRUE) \/ OpenedAbove(w, w1, kind, left)
  BY <1>2, FopenFields
<1>5. CASE w1 = Fail(w) /\ w1.err = TRUE
  <2>1. r = Fail(wi_senderr(w)) /\ w.co.hdrs = 0
    BY <1>1, <1>5 DEF Fresh
  <2>2. Base(r) /\ More(w, r) /\ Over(r) /\ Replying(r)
    BY <2>1, FailEnds
  <2>3. QED
    BY <2>2, MoreWent DEF Went, Over
<1>6. CASE OpenedAbove(w, w1, kind, left)
  <2>1. /\ Base(w1) /\ Even(w, w1) /\ w1.co = w.co /\ w1.err = FALSE
        /\ w1.se.tx = {} /\ w1.se.flags = w.se.flags
        /\ w1.se.sock = w.se.sock /\ w1.se.files # <<>>
        /\ w1.file[FileHead(w1)].kind = kind /\ w1.file[FileHead(w1)].left = left
    BY <1>6 DEF OpenedAbove
  <2>2. Len(w1.se.files) = 1
    <3>1. Len(w.se.files) = 0 /\ Len(w1.se.files) = Len(w.se.files) + 1
      BY <1>6 DEF OpenedAbove
    <3>2. QED
      BY <3>1
  <2>3. w1.co.hdrs = 0 /\ w1.co.room = ROOM
    BY <2>1 DEF Fresh
  <2>4. CASE ~w.co.req.auth
    <3>1. r = Fail(wi_fclose(wi_senderr(w1)))
      BY <1>1, <2>1, <2>4
    <3>2. Base(r) /\ More(w1, r) /\ Over(r) /\ Replying(r)
      BY <2>1, <2>3, <3>1, RefuseContract
    <3>3. Parsed(w1, r)
      BY <3>2, MoreWent DEF Went
    <3>4. QED
      BY <2>1, <3>2, <3>3, ParsedEven DEF Over
  <2>5. CASE w.co.req.auth
    <3>1. /\ Base(w2) /\ Held(w1, w2) /\ More(w1, w2) /\ w2.co = w1.co
          /\ w2.se.flags = x /\ w2.se.tx = w1.se.tx /\ w2.se.sock = w1.se.sock
      BY <1>2, <1>3, <2>1, SetFlagsFields
    <3>2. ASSUME NEW st \in State, NEW v, v = SetState(w2, st), st \in {"POSTRX", "CONTENT"}
          PROVE  /\ Base(v) /\ Even(w, v) /\ Ready(v) /\ Replying(v)
                 /\ v.se.state = st /\ v.se.sock # NoSock
                 /\ v.file[FileHead(v)].left # 0
      <4>1. /\ Base(v) /\ Held(w2, v) /\ More(w2, v) /\ v.co = w2.co
            /\ v.se.state = st /\ v.se.tx = w2.se.tx /\ v.se.flags = w2.se.flags
            /\ v.se.sock = w2.se.sock
        <5>1. w2.se.sock # NoSock
          BY <2>1, <3>1
        <5>2. QED
          BY <3>1, <3>2, <5>1, SetStateFields
      <4>2. v.se.files = w1.se.files /\ v.file = w1.file /\ v.se.flags = x
        BY <3>1, <4>1 DEF Held
      <4>3. v.file[FileHead(v)].kind = kind /\ v.file[FileHead(v)].left # 0
        BY <1>2, <2>1, <4>2 DEF FileHead
      <4>4. v.se.sock # NoSock /\ v.se.tx = {} /\ v.se.files # <<>> /\ Len(v.se.files) = 1
        BY <2>1, <2>2, <3>1, <4>1, <4>2
      <4>5. Fresh(v)
        BY <1>3, <2>3, <3>1, <4>1, <4>2 DEF Fresh
      <4>6. Waiting(v) /\ Ready(v)
        BY <1>3, <4>2, <4>3, <4>4 DEF Waiting, Ready
      <4>7. Whole(v)
        BY <4>4, <4>5 DEF Whole, Fresh
      <4>8. Replying(v)
        BY <3>2, <4>1, <4>5, <4>6, <4>7 DEF Replying
      <4>9. Even(w, v)
        BY <2>1, <3>1, <4>1, EvenTrans DEF More
      <4>10. QED
        BY <4>1, <4>3, <4>4, <4>6, <4>8, <4>9
    <3>3. CASE w.co.req.cmd = "POST"
      <4>1. r = p
        BY <1>1, <2>1, <2>5, <3>3
      <4>2. Base(p) /\ Even(w, p) /\ Replying(p) /\ p.se.state = s1
        BY <1>2, <3>2
      <4>3. Parsed(w, p)
        BY <4>2, ParsedSelf, EvenParsed
      <4>4. QED
        BY <1>2, <4>1, <4>2, <4>3
    <3>4. CASE w.co.req.cmd # "POST"
      <4>1. r = wi_readfile(q)
        BY <1>1, <2>1, <2>5, <3>4
      <4>2. /\ Base(q) /\ Even(w, q) /\ Ready(q) /\ Replying(q) /\ q.se.state = s2
            /\ q.se.sock # NoSock /\ q.file[FileHead(q)].left # 0
        BY <1>2, <3>2
      <4>3. /\ Base(r) /\ Went(q, r) /\ Replying(r)
            /\ r.se.state \in {"CONTENT", "SENDDATA", "PUSHING", "ENDING"}
        BY <1>2, <4>1, <4>2, ReadfileContract
      <4>4. QED
        BY <4>2, <4>3, ParsedEven DEF Went
    <3>5. QED
      BY <3>3, <3>4
  <2>6. QED
    BY <2>4, <2>5
<1>7. QED
  BY <1>4, <1>5, <1>6

\* A header that is complete is answered.
LEMMA ParseheaderContract ==
    ASSUME NEW w, Base(w), w.se.sock # NoSock, w.se.state = "HEADER", Replying(w),
           NEW r, r = wi_parseheader(w)
    PROVE  Base(r) /\ Parsed(w, r) /\ Replying(r)
<1> DEFINE b  == wi_buildform(w, w.co.req.pairs)
           w1 == IF w.co.req.cmd = "GET" /\ w.co.req.pairs # "none" THEN b ELSE Ok(w)
<1>1. \/ r \in {Ok(w), Fail(wi_senderr(w)), Fail(wi_senderr(w1))}
      \/ r = AnswerFile(w1) /\ ~w1.err
  BY DEF wi_parseheader
<1>2. /\ Fresh(w) /\ w.co.hdrs = 0 /\ w.se.tx = {} /\ w.se.files = <<>> /\ w.se.flags = {}
      /\ Whole(w)
  BY DEF Replying, Fresh
<1>3. /\ Base(w1) /\ Parsed(w, w1) /\ (Failed(w1) \/ Even(w, w1))
      /\ w1.se.sock # NoSock /\ Fresh(w1) /\ w1.co.hdrs = 0 /\ w1.se.tx = {} /\ w1.se.files = <<>>
  <2>1. CASE w1 = b
    <3>1. b = wi_buildform(w, w.co.req.pairs) /\ (w.co.req.pairs = "bad" => BadPairs(w.co.req))
      BY DEF BadPairs
    <3> HIDE DEF b
    <3>2. /\ Parsed(w, b) /\ (Failed(b) \/ Even(w, b)) /\ Base(b) /\ b.co = w.co
          /\ b.se.files = w.se.files /\ b.se.tx = w.se.tx
          /\ b.se.flags = w.se.flags /\ b.se.sock = w.se.sock
      BY <3>1, BuildformParsed
    <3>3. QED
      BY <1>2, <2>1, <3>2 DEF Fresh
  <2>2. CASE w1 = Ok(w)
    <3> HIDE DEF w1
    <3>1. Base(w1) /\ w1.se = w.se /\ w1.co = w.co /\ More(w, w1)
      BY <2>2, ErrFields
    <3>2. Parsed(w, w1)
      BY <3>1, ParsedSelf, EvenParsed DEF More
    <3>3. QED
      BY <1>2, <3>1, <3>2 DEF Fresh, More
  <2>3. QED
    BY <2>1, <2>2
<1> HIDE DEF w1
<1>4. ASSUME NEW v, Base(v), Parsed(w, v), v.se.tx = {}, v.co.hdrs = 0, r = Fail(wi_senderr(v))
      PROVE  Base(r) /\ Parsed(w, r) /\ Replying(r)
  <2>1. v.co.hdrs <= 1 /\ (v.se.sock # NoSock => v.co.hdrs = 0)
    BY <1>4
  <2>2. Base(r) /\ More(v, r) /\ Over(r) /\ Replying(r)
    BY <1>4, <2>1, FailEnds
  <2>3. QED
    BY <1>4, <2>2, EvenParsed DEF More
<1>5. CASE r = Ok(w)
  <2>1. Base(r) /\ r.se = w.se /\ r.co = w.co /\ More(w, r)
    BY <1>5, ErrFields
  <2>2. Parsed(w, r)
    BY <2>1, ParsedSelf, EvenParsed DEF More
  <2>3. Replying(r)
    BY <1>2, <2>1 DEF Replying, Whole, Fresh, Sent
  <2>4. QED
    BY <2>1, <2>2, <2>3
<1>6. CASE r = Fail(wi_senderr(w))
  BY <1>2, <1>4, <1>6, ParsedSelf
<1>7. CASE r = Fail(wi_senderr(w1))
  BY <1>3, <1>4, <1>7
<1>8. CASE r = AnswerFile(w1) /\ ~w1.err
  <2>1. Base(r) /\ Parsed(w1, r) /\ Replying(r)
    BY <1>3, <1>8, AnswerFileContract
  <2>2. QED
    BY <1>3, <1>8, <2>1, ParsedEven DEF Failed
<1>9. QED
  BY <1>1, <1>5, <1>6, <1>7, <1>8

\* Receiving resets the clock and changes nothing of the reply.
LEMMA RecvContract ==
    ASSUME NEW w, Base(w), NEW r, r = Recv(w)
    PROVE  /\ Base(r) /\ Even(w, r) /\ r.co = w.co /\ r.file = w.file /\ r.form = w.form
           /\ r.se.idle = 0 /\ r.se.files = w.se.files /\ r.se.tx = w.se.tx
           /\ r.se.forms = w.se.forms
           /\ r.se.flags = w.se.flags /\ r.se.state = w.se.state /\ r.se.sock = w.se.sock
<1> DEFINE y == w.se.rx + Received(w)
           x == 0
<1>1. /\ Base(r) /\ r.se.files = w.se.files /\ r.se.flags = w.se.flags
      /\ r.se.state = w.se.state /\ r.se.sock = w.se.sock /\ r.file = w.file
  BY RecvQuiet DEF Quiet, Step, Keeps
<1>2. r = SetRx(w, y, x) /\ x = 0 /\ w \in WorkSet /\ w.se \in WiSess
  BY SeTypes DEF Recv, SetRx
<1> HIDE DEF x, y
<1>3. /\ r.se = [w.se EXCEPT !.rx = y, !.idle = x] /\ r.co = w.co
      /\ r.form = w.form
  BY <1>2 DEF WorkSet, SetRx
<1>4. r.se.idle = x /\ r.se.forms = w.se.forms /\ r.se.tx = w.se.tx
  BY <1>2, <1>3 DEF WiSess
<1>5. Lost(r) = Lost(w)
  BY <1>1 DEF Lost, Own
<1>6. QED
  BY <1>1, <1>2, <1>3, <1>4, <1>5 DEF Even

\* wi_delsess loses the files below the head of the list, and no other slot.
LEMMA ReleaseContract ==
    ASSUME NEW w, Base(w), NEW r, r = Release(w)
    PROVE  /\ r.se = NewSess(NoSock) /\ r.co.hdrs = w.co.hdrs
           /\ r.form = w.form \ w.se.forms
           /\ Len(w.se.files) <= 1 => {f \in FileSlot : r.file[f] # FreeFile} = Lost(w)
<1> DEFINE w1 == IF w.se.files = <<>> THEN w ELSE wi_fclose(w)
           v  == CloseSocket(w1)
           S  == w.se.tx
           w2 == wi_txfree(v, S)
           z  == [w2 EXCEPT !.form = @ \ w.se.forms, !.se = NewSess(NoSock)]
<1>1. r.se = NewSess(NoSock) /\ r.form = w.form \ w.se.forms
  BY ReleaseFreed DEF Freed
<1>2. r = z
  BY DEF Release
<1>3. /\ v = CloseSocket(w1) /\ w2 = wi_txfree(v, S)
  OBVIOUS
<1>4. /\ Base(w1) /\ Lost(w1) = Lost(w) /\ w1.co = w.co /\ w1.se.tx = S
      /\ Len(w.se.files) <= 1 => Own(w1) = {}
  <2>1. CASE w.se.files = <<>>
    <3>1. w1 = w /\ Len(w.se.files) = 0
      BY <2>1
    <3>2. QED
      BY <3>1 DEF Own
  <2>2. CASE w.se.files # <<>>
    <3>1. w1 = wi_fclose(w)
      BY <2>2
    <3> HIDE DEF w1
    <3>2. /\ Base(w1) /\ More(w, w1) /\ w1.co = w.co /\ w1.se.tx = w.se.tx
      BY <2>2, <3>1, FcloseFields
    <3>3. Len(w1.se.files) = Len(w.se.files) - 1 /\ Len(w.se.files) \in Nat \ {0}
      BY <2>2, <3>1, FcloseFields
    <3>4. Len(w.se.files) <= 1 => Own(w1) = {}
      BY <3>3 DEF Own
    <3>5. QED
      BY <3>2, <3>4 DEF More, Even
  <2>3. QED
    BY <2>1, <2>2
<1> HIDE DEF w1, v, w2, S
<1>5. Base(v) /\ Held(w1, v) /\ v.se.tx = w1.se.tx /\ v.co.hdrs = w1.co.hdrs
  BY <1>3, <1>4, CloseSocketFields
<1>6. Base(w2) /\ Held(v, w2) /\ w2.co = v.co
  <2>1. S \in SUBSET v.se.tx
    BY <1>4, <1>5
  <2>2. QED
    BY <1>3, <1>5, <2>1, TxfreeFields
<1>7. z.co = w2.co /\ z.file = w2.file
  <2>1. w2 \in WorkSet
    BY <1>6, SeTypes
  <2>2. QED
    BY <2>1 DEF WorkSet
<1>8. r.file = w1.file /\ r.co.hdrs = w.co.hdrs
  BY <1>2, <1>4, <1>5, <1>6, <1>7 DEF Held
<1>9. Len(w.se.files) <= 1 => {f \in FileSlot : r.file[f] # FreeFile} = Lost(w)
  BY <1>4, <1>8 DEF Lost
<1>10. QED
  BY <1>1, <1>8, <1>9

=============================================================================
