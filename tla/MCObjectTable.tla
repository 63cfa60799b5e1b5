---------------------------- MODULE MCObjectTable ----------------------------
(* The titles of the runs of ObjectTable.                                    *)
EXTENDS ObjectTable, TLC

CONSTANTS a, b, named, t1, t2, t3

NamedA == [o \in Objects |-> IF o = a THEN named ELSE NoName]
Unnamed == [o \in Objects |-> NoName]

\* Handles are duplicated, moved and purged, with no care.
Handling == [calls |-> {"create", "duplicate", "move", "purge"},
             threads |-> {t1, t2}, names |-> Unnamed, careful |-> FALSE]

\* Objects are referenced and dereferenced, and their handles closed with care.
Referencing == [calls |-> {"create", "reference"},
                threads |-> {t1, t2, t3}, names |-> Unnamed, careful |-> TRUE]

\* Objects are created by name, searched for, opened and referenced, with care, ...
Searching == [calls |-> {"create", "open", "reference"},
              threads |-> {t1, t2, t3}, names |-> NamedA, careful |-> TRUE]

\* ... and with none.
Careless == [calls |-> {"create", "open", "reference", "find"},
             threads |-> {t1, t2}, names |-> NamedA, careful |-> FALSE]

FourTitles == {Handling, Referencing, Searching, Careless}

\* A title that duplicates what it references.
OneTitle == {[calls |-> {"create", "duplicate", "reference"},
              threads |-> {t1}, names |-> Unnamed, careful |-> TRUE]}

\* Sound: every title has both of these threads, or neither, and treats them alike.
Alike == Permutations({t1, t2})
=============================================================================
