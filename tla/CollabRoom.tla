----------------------------- MODULE CollabRoom -----------------------------
(***************************************************************************)
(* What the server promises about collaborative viewing, without locks,    *)
(* guards, sender lists or garbage collection: a room shows one media file *)
(* to everyone in it, chosen by whoever enters it while it is empty, and a *)
(* session is in one room at most. Sessions implements it.                 *)
(***************************************************************************)
CONSTANTS Sessions, MediaFiles, Collabs, None

VARIABLES
    members,    \* [Collabs -> the sessions in the room]
    shown       \* [Collabs -> the media file shown, None while empty]

vars == <<members, shown>>

TypeOK ==
    /\ members \in [Collabs -> SUBSET Sessions]
    /\ shown \in [Collabs -> MediaFiles \cup {None}]

Init ==
    /\ members = [c \in Collabs |-> {}]
    /\ shown = [c \in Collabs |-> None]

\* A session enters a room that is empty or shows the file it comes for.
Join(s, c, m) ==
    /\ \A d \in Collabs : s \notin members[d]
    /\ members[c] = {} \/ shown[c] = m
    /\ members' = [members EXCEPT ![c] = @ \cup {s}]
    /\ shown' = [shown EXCEPT ![c] = m]

\* A session leaves its room, by its own will or because it disconnects.
Leave(s, c) ==
    /\ s \in members[c]
    /\ members' = [members EXCEPT ![c] = @ \ {s}]
    /\ shown' = [shown EXCEPT ![c] = IF members[c] = {s} THEN None ELSE @]

Next ==
    \E s \in Sessions, c \in Collabs :
        \/ \E m \in MediaFiles : Join(s, c, m)
        \/ Leave(s, c)

Spec == Init /\ [][Next]_vars
=============================================================================
