----------------------------- MODULE SessionLife -----------------------------
(***************************************************************************)
(* What the webio server promises of its sessions, whatever it takes to    *)
(* serve them: a session owns one connection, goes through its states in   *)
(* the order of the ws_state codes, ends in one of the ways listed here,   *)
(* and a restart ends them all before the server serves again.             *)
(***************************************************************************)
CONSTANTS Sess, Conn, NoSock

VARIABLES phase,  \* ws_state of each session, "free" when there is none
          sock,   \* its connection
          up      \* FALSE while the server restarts

vars == <<phase, sock, up>>

\* The states a session may be in after one pass of wi_poll over it.
After == [HEADER   |-> {"POSTRX", "CONTENT", "SENDDATA", "PUSHING", "ENDING"},
          POSTRX   |-> {"CONTENT", "ENDING"},
          CONTENT  |-> {"SENDDATA", "PUSHING", "ENDING"},
          SENDDATA |-> {"ENDING"},
          PUSHING  |-> {"ENDING"},
          ENDING   |-> {}]

Live(s) == phase[s] # "free"

Init ==
    /\ phase = [s \in Sess |-> "free"]
    /\ sock = [s \in Sess |-> NoSock]
    /\ up = TRUE

\* A new session gets a connection no other session has.
Accept(s, c) ==
    /\ up /\ ~Live(s)
    /\ \A t \in Sess : sock[t] # c
    /\ phase' = [phase EXCEPT ![s] = "HEADER"]
    /\ sock' = [sock EXCEPT ![s] = c]
    /\ UNCHANGED up

\* One pass over a session; its connection is closed only to end it.
Serve(s) ==
    /\ up /\ Live(s)
    /\ \E x \in After[phase[s]] :
          /\ phase' = [phase EXCEPT ![s] = x]
          /\ \/ UNCHANGED sock
             \/ x = "ENDING" /\ sock' = [sock EXCEPT ![s] = NoSock]
    /\ UNCHANGED up

\* Push code may end a session at any time.
End(s) ==
    /\ Live(s)
    /\ phase' = [phase EXCEPT ![s] = "ENDING"]
    /\ UNCHANGED <<sock, up>>

Gone(s) ==
    /\ phase' = [phase EXCEPT ![s] = "free"]
    /\ sock' = [sock EXCEPT ![s] = NoSock]
    /\ UNCHANGED up

\* A session that waits for POST content or that push code owns is not deleted.
Delete(s) == up /\ phase[s] \in {"HEADER", "CONTENT", "SENDDATA", "ENDING"} /\ Gone(s)

Clean(s) == ~up /\ Live(s) /\ Gone(s)

Fail == up /\ up' = FALSE /\ UNCHANGED <<phase, sock>>

Recover == ~up /\ (\A s \in Sess : ~Live(s)) /\ up' = TRUE /\ UNCHANGED <<phase, sock>>

Next ==
    \/ \E s \in Sess : Serve(s) \/ End(s) \/ Delete(s) \/ Clean(s)
    \/ \E s \in Sess, c \in Conn : Accept(s, c)
    \/ Fail
    \/ Recover

Spec == Init /\ [][Next]_vars

=============================================================================
