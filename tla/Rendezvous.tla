----------------------------- MODULE Rendezvous -----------------------------
(***************************************************************************)
(* What the signaling server promises: tenants that presented a token join *)
(* a session in a role; a tenant that arrives is linked at most once, with *)
(* one tenant of its session in the opposite role; and a tenant hears only *)
(* tenants it is linked with.  Signaling implements it.                    *)
(***************************************************************************)
CONSTANTS
    Conn,     \* tenants
    Result,   \* what a token is worth: session and role
    None,     \* no result yet
    Opposite(_, _)   \* may the holders of these two results be linked?

VARIABLES
    member,   \* the result each tenant presented
    links,    \* pairs <<arrival, waiter>>
    heard     \* heard[t]: the tenants whose packets t received

vars == <<member, links, heard>>

Linked(s, t) == <<s, t>> \in links \/ <<t, s>> \in links

Init == /\ member = [c \in Conn |-> None]
        /\ links = {}
        /\ heard = [c \in Conn |-> {}]

Join(c) ==
    /\ member[c] = None
    /\ \E r \in Result : member' = [member EXCEPT ![c] = r]
    /\ UNCHANGED <<links, heard>>

\* The arrival has no link yet; the waiter may have been linked before.
Link(c, w) ==
    /\ member[c] \in Result /\ member[w] \in Result
    /\ Opposite(member[c], member[w])
    /\ \A t \in Conn : ~ Linked(c, t)
    /\ links' = links \cup {<<c, w>>}
    /\ UNCHANGED <<member, heard>>

Hear(s, t) ==
    /\ Linked(s, t)
    /\ heard' = [heard EXCEPT ![t] = @ \cup {s}]
    /\ UNCHANGED <<member, links>>

Next == \/ \E c \in Conn : Join(c)
        \/ \E c, w \in Conn : Link(c, w) \/ Hear(c, w)

Spec == Init /\ [][Next]_vars
=============================================================================
