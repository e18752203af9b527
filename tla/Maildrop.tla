------------------------------ MODULE Maildrop ------------------------------
(***************************************************************************)
(* What the archive promises its clients, without Git, locks, crashes or   *)
(* files: a mailbox in which messages appear under ascending IDs, and from *)
(* which a requested deletion takes all its messages at once.  A client    *)
(* that is told of success can rely on it; one that is not told anything   *)
(* may still find that its request took effect.                            *)
(***************************************************************************)
EXTENDS Integers

CONSTANTS
    MaxID,      \* the largest ID
    Sizes,      \* the sizes of messages
    Requests    \* the sets of IDs a client may ask to delete

VARIABLES
    mail,       \* the messages anyone who looks now will find
    lastID,     \* the last ID given out
    acked,      \* messages whose sender was told that they are accepted
    requested,  \* deletions that were asked for
    confirmed   \* IDs whose deletion was confirmed

vars == <<mail, lastID, acked, requested, confirmed>>

named(ids) == {m \in mail : m.ID \in ids}

\* A mailbox that was filled before the first client came.
Init ==
    /\ lastID \in 0 .. MaxID
    /\ \A m \in mail : m.ID \in 1 .. lastID
    /\ acked = mail
    /\ requested = {}
    /\ confirmed = {}

Deliver ==
    /\ lastID < MaxID
    /\ lastID' = lastID + 1
    /\ \E size \in Sizes : mail' = mail \cup {[ID |-> lastID + 1, Size |-> size]}
    /\ UNCHANGED <<acked, requested, confirmed>>

\* Success is only reported of a message that is there.
Accept ==
    /\ \E m \in mail : acked' = acked \cup {m}
    /\ UNCHANGED <<mail, lastID, requested, confirmed>>

Request ==
    /\ \E ids \in Requests : requested' = requested \cup {ids}
    /\ UNCHANGED <<mail, lastID, acked, confirmed>>

\* A deletion takes all of its messages that are left, and no other.
Remove ==
    /\ \E ids \in requested : mail' = mail \ named(ids)
    /\ UNCHANGED <<lastID, acked, requested, confirmed>>

\* Success is only reported of a deletion that leaves none of its messages.
Confirm ==
    /\ \E ids \in requested :
          /\ ids \subseteq 1 .. lastID
          /\ named(ids) = {}
          /\ confirmed' = confirmed \cup ids
    /\ UNCHANGED <<mail, lastID, acked, requested>>

Next == Deliver \/ Accept \/ Request \/ Remove \/ Confirm

Spec == Init /\ [][Next]_vars

-----------------------------------------------------------------------------
\* The promise to senders: accepted mail stays until someone deletes it.
AcceptedStays == \A m \in acked : m \in mail \/ m.ID \in UNION requested

\* The promise to readers: what was confirmed as deleted does not come back.
DeletedStays == named(confirmed) = {}
=============================================================================
