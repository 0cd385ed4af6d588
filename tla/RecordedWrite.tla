--------------------------- MODULE RecordedWrite ---------------------------
(***************************************************************************)
(* What the status fields that hold the hash of some work promise.  The    *)
(* operator hashes the commands it wants to run, skips the work when the   *)
(* hash is the recorded one, and records the hash after the work has been  *)
(* done.  A record is worth something only if it moves to a hash that the  *)
(* contents fulfil at that moment; whatever changes the contents behind    *)
(* its back is told apart as a loss.                                       *)
(***************************************************************************)
CONSTANTS Fields,   \* fields of the status
          Values,   \* hashes
          None      \* no hash is recorded

VARIABLES held,     \* the hashes that the contents of each field fulfil
          recorded, \* the hash in each field
          open,     \* fields whose work has been done and is not recorded yet
          lost      \* fields whose contents changed and that was not recorded

vars == <<held, recorded, open, lost>>

Init ==
    /\ held \in [Fields -> SUBSET Values]
    /\ recorded = [f \in Fields |-> None]
    /\ open = {} /\ lost = {}

SameHeld(f)     == held'[f] = held[f]
SameRecorded(f) == recorded'[f] = recorded[f]
SameLost(f)     == (f \in lost') <=> (f \in lost)
Same(f) == SameHeld(f) /\ SameRecorded(f) /\ SameLost(f) /\ ((f \in open') <=> (f \in open))

\* The work is done, to be recorded. What is open may change again.
Write(f) == f \in open' /\ SameRecorded(f) /\ SameLost(f)

\* What was done is recorded; for work that undoes itself the record is erased.
Record(f) ==
    /\ f \in open /\ f \notin open' /\ f \notin lost'
    /\ recorded'[f] \in held[f] \cup {None}
    /\ SameHeld(f)

\* The operator gives up between the work and its record.
Abandon(f) ==
    /\ f \in open /\ f \notin open'
    /\ f \in lost' \/ (recorded[f] = None /\ SameLost(f))
    /\ SameHeld(f) /\ SameRecorded(f)

\* The contents change without a record: half of the work, or older contents. That
\* is no loss while nothing is recorded.
Disturb(f) ==
    /\ f \notin open /\ f \notin open'
    /\ f \in lost' \/ (recorded[f] = None /\ SameLost(f))
    /\ SameRecorded(f)

Next ==
    /\ held' \in [Fields -> SUBSET Values]
    /\ \A f \in Fields : Write(f) \/ Record(f) \/ Abandon(f) \/ Disturb(f) \/ Same(f)

Spec == Init /\ [][Next]_vars

\* What is recorded has been done, unless it is being replaced or was lost.
Truthful == \A f \in Fields :
    recorded[f] = None \/ recorded[f] \in held[f] \/ f \in open \/ f \in lost
=============================================================================
