----------------------------- MODULE SessObjects -----------------------------
(***************************************************************************)
(* What the object tables and the embedded file system promise their       *)
(* caller: a session has a queue of text units, which leave it in the      *)
(* order they came, and a stack of open files, each read from its own      *)
(* position; a call that has no room for more changes nothing.             *)
(***************************************************************************)
EXTENDS Integers, Sequences

CONSTANTS Sess, Unit,
          Name, CodeFile,  \* the embedded files, and those that are C routines
          Size,            \* em_size of each
          Chunk,           \* how many bytes a reader may ask for
          Error            \* WI_E_ codes

VARIABLES
    live,   \* the sessions that exist
    queue,  \* the units queued in each, oldest first
    stack,  \* its open files, innermost first
    ret     \* what the last call returned

vars == <<live, queue, stack, ret>>

Least(a, b) == IF a <= b THEN a ELSE b

Init ==
    /\ live = {}
    /\ queue = [s \in Sess |-> <<>>]
    /\ stack = [s \in Sess |-> <<>>]
    /\ ret = 0

New(s) ==
    /\ s \notin live
    /\ live' = live \cup {s} /\ ret' = 0
    /\ UNCHANGED <<queue, stack>>

Put(s, d) ==
    /\ s \in live
    /\ ret' = 0 /\ UNCHANGED <<live, stack>>
    /\ queue' = [queue EXCEPT ![s] = Append(@, d)]

\* A txbuf's worth of units is sent, from the front of the queue.
Send(s) ==
    /\ s \in live
    /\ ret' = 0 /\ UNCHANGED <<live, stack>>
    /\ \E n \in 1 .. Len(queue[s]) :
          queue' = [queue EXCEPT ![s] = SubSeq(@, n + 1, Len(@))]

Open(s, name) ==
    /\ s \in live
    /\ ret' = 0 /\ UNCHANGED <<live, queue>>
    /\ stack' = [stack EXCEPT ![s] = <<[name |-> name, pos |-> 0]>> \o @]

\* At most n bytes from where the last read ended; 0 at the end and for a C routine.
Read(s, n) ==
    /\ s \in live /\ stack[s] # <<>>
    /\ LET top == stack[s][1]
           got == IF top.name \in CodeFile THEN 0 ELSE Least(n, Size[top.name] - top.pos)
       IN  /\ ret' = got
           /\ stack' = [stack EXCEPT ![s][1].pos = @ + got]
    /\ UNCHANGED <<live, queue>>

\* The length of the file, wherever it has been read to.
Length(s) ==
    /\ s \in live /\ stack[s] # <<>>
    /\ ret' = Size[stack[s][1].name]
    /\ UNCHANGED <<live, queue, stack>>

Close(s) ==
    /\ s \in live /\ stack[s] # <<>>
    /\ ret' = 0 /\ UNCHANGED <<live, queue>>
    /\ stack' = [stack EXCEPT ![s] = Tail(@)]

Delete(s) ==
    /\ s \in live
    /\ live' = live \ {s} /\ ret' = 0
    /\ queue' = [queue EXCEPT ![s] = <<>>]
    /\ stack' = [stack EXCEPT ![s] = <<>>]

Refuse ==
    /\ \E e \in Error : ret' = e
    /\ UNCHANGED <<live, queue, stack>>

Next ==
    \/ Refuse
    \/ \E s \in Sess :
          \/ New(s)
          \/ \E d \in Unit : Put(s, d)
          \/ Send(s)
          \/ \E name \in Name : Open(s, name)
          \/ \E n \in Chunk : Read(s, n)
          \/ Length(s)
          \/ Close(s)
          \/ Delete(s)

Spec == Init /\ [][Next]_vars
=============================================================================
