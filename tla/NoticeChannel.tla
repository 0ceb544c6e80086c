---------------------------- MODULE NoticeChannel ----------------------------
(***************************************************************************)
(* What the outbox promises (README of the repository, "outbox"): a notice *)
(* is shown in its chat at most once and only after it was posted, it is   *)
(* confirmed only if it was shown, and once it is settled, confirmed or    *)
(* given up as undeliverable, nothing changes any more.                    *)
(***************************************************************************)
CONSTANT Notices

VARIABLES posted,    \* notices handed to the channel
          shown,     \* notices a human can read in the chat
          confirmed, \* notices known to have been shown
          undeliverable

vars == <<posted, shown, confirmed, undeliverable>>

Init ==
  /\ posted = {}
  /\ shown = {}
  /\ confirmed = {}
  /\ undeliverable = {}

Open == posted \ (confirmed \cup undeliverable)

Post(n) ==
  /\ n \notin posted
  /\ posted' = posted \cup {n}
  /\ UNCHANGED <<shown, confirmed, undeliverable>>

Show(n) ==
  /\ n \in Open \ shown
  /\ shown' = shown \cup {n}
  /\ UNCHANGED <<posted, confirmed, undeliverable>>

Confirm(n) ==
  /\ n \in Open \cap shown
  /\ confirmed' = confirmed \cup {n}
  /\ UNCHANGED <<posted, shown, undeliverable>>

GiveUp(n) ==
  /\ n \in Open
  /\ undeliverable' = undeliverable \cup {n}
  /\ UNCHANGED <<posted, shown, confirmed>>

Next == \E n \in Notices : Post(n) \/ Show(n) \/ Confirm(n) \/ GiveUp(n)

Spec == Init /\ [][Next]_vars
=============================================================================
