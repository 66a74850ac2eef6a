-------------------------- MODULE ConversationLog --------------------------
(***************************************************************************)
(* What a conversation store promises its users: a conversation is a log.  *)
(* It grows at its end, by messages of one turn at a time, is a legal      *)
(* transcript whenever anyone can read it, and is otherwise only erased as *)
(* a whole.                                                                *)
(***************************************************************************)
EXTENDS Messages

CONSTANT Conv

VARIABLE log   \* log[c] is the transcript of conversation c

LogInit == log = [c \in Conv |-> <<>>]

\* Turn t adds messages: its first ones, or more of them while it is the last
\* turn that wrote.
Extend(c, t) ==
    LET old == log[c]
        new == log'[c]
    IN  /\ Len(new) > Len(old)
        /\ SubSeq(new, 1, Len(old)) = old
        /\ WellFormed(new)
        /\ \A i \in (Len(old) + 1)..Len(new) : new[i].turn = t
        /\ \/ \A i \in DOMAIN old : old[i].turn # t
           \/ old[Len(old)].turn = t

\* Deleted by the user, or lost with a file that broke while it was written.
Erase(c) == log'[c] = <<>>

\* A turn that had read the conversation before it was erased brings it back.
Restore(c) == log[c] = <<>> /\ WellFormed(log'[c])

LogNext ==
    \E c \in Conv :
        /\ Erase(c) \/ Restore(c) \/ \E t \in Turn : Extend(c, t)
        /\ \A d \in Conv \ {c} : log'[d] = log[d]

LogSpec == LogInit /\ [][LogNext]_log
=============================================================================
