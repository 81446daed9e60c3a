------------------------------ MODULE DataDir ------------------------------
(***************************************************************************)
(* What backup and restore of kvrocks promise about its data, whoever asks *)
(* and whatever fails: the database directory is touched from outside only *)
(* while kvrocks does not run; all of it goes before the backup directory  *)
(* takes its place, as one piece; that directory holds a checkpoint of a   *)
(* moment when kvrocks ran, unless somebody has begun to remove it; and    *)
(* kvrocks is never started without a database.                            *)
(***************************************************************************)
CONSTANTS
    Versions,    \* contents of a database
    Part,        \* some files of a database are missing
    Gone         \* the directory does not exist

VARIABLES
    running,     \* kvrocks has the database open
    db,          \* content of the database directory
    bak,         \* content of the backup directory
    snap         \* the checkpoint that will become the backup

vars == <<running, db, bak, snap>>

Init == /\ running = TRUE
        /\ db \in Versions /\ bak \in Versions \cup {Gone} /\ snap = Gone

\* Clients of kvrocks change the data; what is missing stays missing.
Write ==
    /\ running /\ db' \in (IF db = Part THEN {Part} ELSE Versions)
    /\ UNCHANGED <<running, bak, snap>>

\* kvrocks makes a backup in two steps.
Checkpoint == running /\ snap' = db /\ UNCHANGED <<running, db, bak>>
Save == running /\ snap # Gone /\ bak' = snap /\ snap' = Gone /\ UNCHANGED <<running, db>>

\* A backup may be thrown away at any time, and be found half removed.
Discard == bak # Gone /\ bak' \in {Part, Gone} /\ UNCHANGED <<running, db, snap>>

Stop  == running' = FALSE /\ snap' = Gone /\ UNCHANGED <<db, bak>>
Start == db # Gone /\ running' = TRUE /\ UNCHANGED <<db, bak, snap>>

\* Restoring: the old data goes, then the backup takes its place.
Erase == ~running /\ db # Gone /\ db' \in {Part, Gone} /\ UNCHANGED <<running, bak, snap>>
Promote ==
    /\ ~running /\ db = Gone /\ bak # Gone
    /\ db' = bak /\ bak' = Gone
    /\ UNCHANGED <<running, snap>>

Next == Write \/ Checkpoint \/ Save \/ Discard \/ Stop \/ Start \/ Erase \/ Promote

Spec == Init /\ [][Next]_vars
=============================================================================
