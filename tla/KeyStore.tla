------------------------------ MODULE KeyStore ------------------------------
(***************************************************************************)
(* What the registry promises to a program that uses one registry file: a  *)
(* map from entries (a key and the name of a value) to typed values, which *)
(* is read when the registry is opened and saved when it is closed.  What  *)
(* was set since is lost when the program ends without closing it.         *)
(***************************************************************************)
EXTENDS Naturals, Sequences, SequencesExt

CONSTANTS
  Keys,    \* the keys, by the names on the way to them; << >> is no key
  Names,   \* the names of values
  Values,  \* the values, records with a type
  None

VARIABLES
  store,   \* the map the program works on
  saved,   \* the map the file holds
  opened,  \* is the registry open
  last     \* the last call, whether it succeeded, and the value it told

vars == <<store, saved, opened, last>>

Paths == Keys \ {<< >>}
Entries == Paths \X Names
Empty == [e \in Entries |-> None]
Told(call, ok, value) == [call |-> call, ok |-> ok, value |-> value]

Init ==
  /\ store = Empty /\ saved = Empty /\ opened = FALSE
  /\ last = Told(<<"exit">>, TRUE, None)

\* What is open is saved first, and read again unless there is an error.
Open ==
  /\ opened' \in BOOLEAN /\ last' = Told(<<"open">>, opened', None)
  /\ saved' = IF opened THEN store ELSE saved
  /\ store' = IF opened' THEN saved' ELSE Empty

Close ==
  /\ last' = Told(<<"close">>, TRUE, None)
  /\ saved' = IF opened THEN store ELSE saved
  /\ store' = Empty /\ opened' = FALSE

\* The program ends, on purpose or not.
Exit ==
  /\ last' = Told(<<"exit">>, TRUE, None)
  /\ store' = Empty /\ opened' = FALSE /\ UNCHANGED saved

\* The last value set is the value, whatever type it replaces.
Set(path, name, value) ==
  LET ok == opened /\ path \in Paths
  IN  /\ last' = Told(<<"set", path, name, value>>, ok, None)
      /\ store' = IF ok THEN [store EXCEPT ![<<path, name>>] = value] ELSE store
      /\ UNCHANGED <<saved, opened>>

\* A key without values is nothing to find.
CreateKeys(path) ==
  /\ last' = Told(<<"createkeys", path>>, opened /\ path \in Paths, None)
  /\ UNCHANGED <<store, saved, opened>>

\* None stands for the default of the program; a value of the other type is an
\* error.
Get(path, name, type) ==
  LET value == IF path \in Paths THEN store[<<path, name>>] ELSE None
      ok == value # None => value.type = type
  IN  /\ last' = Told(<<"get", path, name, type>>, ok, IF ok THEN value ELSE None)
      /\ UNCHANGED <<store, saved, opened>>

DelValue(path, name) ==
  LET ok == path \in Paths /\ store[<<path, name>>] # None
  IN  /\ last' = Told(<<"delvalue", path, name>>, ok, None)
      /\ store' = IF ok THEN [store EXCEPT ![<<path, name>>] = None] ELSE store
      /\ UNCHANGED <<saved, opened>>

\* A key goes with all there is below it.  A key on the top level stays, and
\* one that holds nothing may or may not have been there.
DelKey(path) ==
  LET below == {e \in Entries : IsPrefix(path, e[1])}
  IN  \E ok \in BOOLEAN :
        /\ last' = Told(<<"delkey", path>>, ok, None)
        /\ ok => opened /\ Len(path) > 1
        /\ Len(path) > 1 /\ (\E e \in below : store[e] # None) => ok
        /\ store' = IF ok THEN [e \in Entries |-> IF e \in below THEN None ELSE store[e]]
                          ELSE store
        /\ UNCHANGED <<saved, opened>>

Next ==
  \/ Exit \/ Open \/ Close
  \/ \E path \in Keys, name \in Names :
       \/ \E value \in Values : Set(path, name, value)
       \/ \E type \in {"str", "int"} : Get(path, name, type)
       \/ DelValue(path, name)
  \/ \E path \in Keys : CreateKeys(path)
  \/ \E path \in Paths : DelKey(path)

Spec == Init /\ [][Next]_vars
=============================================================================
