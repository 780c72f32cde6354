----------------------------- MODULE ConfigCell -----------------------------
(***************************************************************************)
(* What the configuration file promises to those who share it: a cell that *)
(* is created, repaired or updated in one step each, so that an update     *)
(* that was answered is in it.  A file of the old format keeps its setting *)
(* until it is migrated, unless its format was overlooked.  The promise    *)
(* ends with an accident.                                                  *)
(***************************************************************************)
CONSTANTS Updates,   \* the updates, each of a field of its own
          Preference \* the field a file of the old format has

VARIABLES kind,      \* "missing", "corrupt", "legacy", "sound"
          fields,    \* fields that differ from the default
          answered,  \* updates answered with success
          overlooked,\* was the old format that is there taken for a file of defaults?
          spoiled    \* has there been an accident?

cell == <<kind, fields, answered, overlooked, spoiled>>

Init ==
    /\ kind \in {"missing", "corrupt", "legacy", "sound"}
    /\ fields = IF kind = "legacy" THEN {Preference} ELSE {}
    /\ answered = {} /\ overlooked = FALSE /\ spoiled = FALSE

Become(k, f) ==
    /\ kind' = k /\ fields' = f /\ overlooked' = FALSE
    /\ UNCHANGED <<answered, spoiled>>

Update(u) == kind \in {"missing", "sound"} /\ Become("sound", fields \cup {u})
Overwrite(u) == kind = "legacy" /\ overlooked /\ Become("sound", {u})
Create    == kind = "missing" /\ Become("sound", {})
Migrate   == kind = "legacy" /\ Become("sound", fields)
SetAside  == kind = "corrupt" /\ Become("missing", {})
Answer(u) == /\ u \in fields /\ answered' = answered \cup {u}
             /\ UNCHANGED <<kind, fields, overlooked, spoiled>>
Overlook  == kind = "legacy" /\ overlooked' = TRUE /\ UNCHANGED <<kind, fields, answered, spoiled>>
Spoil     == spoiled' = TRUE

Next == \/ ~spoiled /\ \/ Create \/ Migrate \/ SetAside \/ Overlook
                       \/ \E u \in Updates : Update(u) \/ Overwrite(u) \/ Answer(u)
        \/ Spoil

Spec == Init /\ [][Next]_cell

=============================================================================
