--------------------------- MODULE TakeoverJournal ---------------------------
(***************************************************************************)
(* What the gateway lifecycle promises about the host, in the words of     *)
(* docs/agent-wiki/sources/decisions/gateway-lifecycle.md: a host setting  *)
(* is taken over only after durable evidence of its original value was     *)
(* written, and that evidence is dropped only when the setting is back.    *)
(* How many steps, files and failures this takes is not said here.         *)
(***************************************************************************)
CONSTANT Resource

VARIABLES
    taken,      \* resources that currently differ from the user's setting
    journal     \* resources whose original value is durably recorded

Init == taken = {} /\ journal = {}

Record == /\ journal \subseteq journal' /\ journal' \subseteq Resource
          /\ UNCHANGED taken

Take(r) == r \in journal /\ taken' = taken \cup {r} /\ UNCHANGED journal

Release == /\ taken' \subseteq taken /\ journal' \subseteq journal
           /\ taken' \subseteq journal'

Next == Record \/ Release \/ \E r \in Resource : Take(r)

Spec == Init /\ [][Next]_<<taken, journal>>
=============================================================================
