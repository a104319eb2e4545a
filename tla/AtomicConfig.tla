---------------------------- MODULE AtomicConfig ----------------------------
(***************************************************************************)
(* What the configuration file promises the programs that share it: every  *)
(* edit happens at once, on the contents the edit before it left.  The     *)
(* contents are abstracted to the set of edits they reflect.               *)
(***************************************************************************)
CONSTANTS
    Editors,   \* commands and daemons: each lock, load, edit and save once
    TuiEdits   \* edits a TUI makes to the copy it holds in memory

Edits == Editors \cup TuiEdits

VARIABLE contents

Init == contents = {}

Apply(e) == /\ e \in Editors \ contents
            /\ contents' = contents \cup {e}

\* A TUI writes its whole copy, which holds an edit the file had not.
Replace(copy) == /\ (copy \ contents) \cap TuiEdits # {}
                 /\ contents' = copy

Next == \/ \E e \in Editors : Apply(e)
        \/ \E copy \in SUBSET Edits : Replace(copy)

Spec == Init /\ [][Next]_contents
=============================================================================
