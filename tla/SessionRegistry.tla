---------------------------- MODULE SessionRegistry ----------------------------
(***************************************************************************)
(* What the presence hub promises its callers, without its goroutines: a   *)
(* user is owned by at most one live connection.  A connection takes over  *)
(* a user only once the previous owner has ended, is attached at most      *)
(* once, and leaves ownership only after it has ended itself.  Hub         *)
(* implements this specification.                                          *)
(***************************************************************************)
CONSTANTS Users,    \* accounts
          Conns,    \* connection objects, each used once
          UserOf,   \* the account a connection authenticated as
          NoConn    \* the absence of a connection

VARIABLES owner,     \* the connection registered for each user
          attached,  \* connections that were ever registered
          ended      \* connections that are closed or no longer read

vars == <<owner, attached, ended>>

Init ==
    /\ owner = [u \in Users |-> NoConn]
    /\ attached = {}
    /\ ended = {}

\* The registration of a connection, possible while no live one owns the user.
Attach(c) ==
    /\ c \notin attached
    /\ owner[UserOf[c]] \in ended \cup {NoConn}
    /\ owner' = [owner EXCEPT ![UserOf[c]] = c]
    /\ attached' = attached \cup {c}
    /\ UNCHANGED ended

\* Connections end: replaced, failed, or left by their client.
End(C) ==
    /\ ended' = ended \cup C
    /\ UNCHANGED <<owner, attached>>

Detach(c) ==
    /\ owner[UserOf[c]] = c
    /\ c \in ended
    /\ owner' = [owner EXCEPT ![UserOf[c]] = NoConn]
    /\ UNCHANGED <<attached, ended>>

\* The server goes away, and every connection it still owned with it.
Clear(C, D) ==
    /\ \A u \in Users : owner[u] \in ended \cup C \cup {NoConn}
    /\ owner' = [u \in Users |-> NoConn]
    /\ ended' = ended \cup C
    /\ attached' = attached \cup D

Next ==
    \/ \E c \in Conns : Attach(c) \/ Detach(c)
    \/ \E C \in SUBSET Conns : End(C) \/ \E D \in SUBSET C : Clear(C, D)

Spec == Init /\ [][Next]_vars
================================================================================
