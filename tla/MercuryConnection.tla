--------------------------- MODULE MercuryConnection ---------------------------
(***************************************************************************)
(* What MercuryClient promises its users, without websockets, loops, flags *)
(* and retries: a link that somebody's attempt has established, that is    *)
(* given up when it breaks or goes silent, and is then sought again by the *)
(* reconnect task, unless disconnect() was called.                         *)
(***************************************************************************)
CONSTANTS
    Users,
    Reconnect

VARIABLES
    link,       \* "none", "up", "broken" and not noticed yet, or "taken"
                \* by the reconnect task, which was created before it was up
    trying,     \* whose attempts to connect are under way
    closing,    \* disconnect() was called after the last connect()
    leaving     \* what a disconnect() has cancelled is still to end

linkVars == <<link, trying, closing, leaving>>

Init == link = "none" /\ trying = {} /\ closing = FALSE /\ leaving = FALSE

Connect(u) ==
    /\ link = "none" /\ u \notin trying
    /\ trying' = trying \cup {u}
    /\ closing' = FALSE
    /\ UNCHANGED <<link, leaving>>

(* Nobody is told when an attempt of the reconnect task fails.             *)
Fails(a) ==
    /\ a \in trying
    /\ trying' = trying \ {a}
    /\ UNCHANGED <<link, closing, leaving>>

(* An attempt that outlives a disconnect() succeeds all the same. Its      *)
(* websocket may have ended since it was authorized.                       *)
Succeeds(a) ==
    /\ a \in trying
    /\ link' \in {"up", "broken"}
    /\ trying' = trying \ {a}
    /\ UNCHANGED <<closing, leaving>>

Breaks ==
    /\ link = "up"
    /\ link' = "broken"
    /\ UNCHANGED <<trying, closing, leaving>>

(* The reconnect task drops what it finds, even a link that was made after *)
(* the loss it was created for.                                            *)
Takes ==
    /\ link # "none" /\ Reconnect \in trying
    /\ link' = "taken"
    /\ UNCHANGED <<trying, closing, leaving>>

(* Nobody seeks a link again that disconnect() or the reconnect task has   *)
(* taken down.                                                             *)
GivesUp ==
    /\ link # "none"
    /\ link' = "none"
    /\ \/ ~closing /\ trying' = trying \cup {Reconnect}
       \/ (closing \/ link = "taken") /\ UNCHANGED trying
    /\ UNCHANGED <<closing, leaving>>

(* It may find nothing left to end.                                        *)
Disconnect ==
    /\ link' = "none"
    /\ closing' = TRUE
    /\ leaving' \in BOOLEAN
    /\ UNCHANGED trying

(* What it has cancelled takes down a link that was made meanwhile.        *)
Leaves ==
    /\ leaving
    /\ link' = "none"
    /\ leaving' \in BOOLEAN
    /\ UNCHANGED <<trying, closing>>

Next ==
    \/ \E u \in Users : Connect(u)
    \/ \E a \in Users \cup {Reconnect} : Fails(a) \/ Succeeds(a)
    \/ Breaks \/ Takes \/ GivesUp \/ Disconnect \/ Leaves

Spec == Init /\ [][Next]_linkVars

(* Every attempt ends, and a link that is no longer up is given up.        *)
FairSpec ==
    /\ Spec
    /\ \A a \in Users \cup {Reconnect} : WF_linkVars(Fails(a) \/ Succeeds(a))
    /\ WF_linkVars(link \in {"broken", "taken"} /\ GivesUp)
    /\ WF_linkVars(Leaves)
================================================================================
