------------------------------- MODULE PageStack -------------------------------
(***************************************************************************)
(* What paging through the activity log promises the reader, after the     *)
(* docstring of _parse_activity_log_history: the pages visited form a      *)
(* stack of cursors, "older" goes strictly further into the past and the   *)
(* way back leads to exactly the page one came from.  The bottom of the    *)
(* stack, cursor 0, is the newest page.                                    *)
(***************************************************************************)
EXTENDS Naturals, Sequences

VARIABLES
    stack,   \* cursors from the newest page down to the page on the screen
    visited  \* every stack the browser has been at: its own history

Top(s) == s[Len(s)]
Newest == <<0>>

Init ==
    /\ stack = Newest
    /\ visited = {Newest}

\* c continues s if it lies strictly below the page on top.
Below(c, s) == c # 0 /\ (Top(s) = 0 \/ c < Top(s))

Older ==
    /\ stack' = Append(stack, Top(stack'))
    /\ Below(Top(stack'), stack)

Previous ==
    /\ Len(stack) > 1
    /\ stack' = SubSeq(stack, 1, Len(stack) - 1)

\* Reloading, choosing a user, or the browser's own history.
Open == stack' \in visited \cup {Newest}

Next ==
    /\ Older \/ Previous \/ Open
    /\ visited' = visited \cup {stack'}

Spec == Init /\ [][Next]_<<stack, visited>>

================================================================================
