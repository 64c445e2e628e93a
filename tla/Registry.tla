------------------------------ MODULE Registry ------------------------------
(***************************************************************************)
(* The registry of the unix build (src/registry.c): a tree of keys with    *)
(* named values, in memory while it is open and written to its file when   *)
(* it is closed.  One program uses one registry file; other programs show  *)
(* only as locks that cannot be had.                                       *)
(*                                                                         *)
(* Siblings have different names, so a key is its path from the root.      *)
(* Names that SU_strcasecmp takes for equal are one name.  The values of a *)
(* key are a sequence that is searched from the front.                     *)
(***************************************************************************)
EXTENDS Naturals, Sequences, SequencesExt

CONSTANTS
  Keys,          \* the keys the program names; << >> for a name without a key
  Names,         \* the names of values
  Strings, Ints, \* the values it sets
  Careful,       \* does it delete an int before it sets the name again, and
                 \* get and set nothing after an open that failed
  LockMayFail,   \* may another program hold the lock of the file
  None

VARIABLES
  root,       \* is there a root node
  loaded,     \* was it made with a name, or loaded to the end
  regFile,    \* _SU_RB_RegFile: "null", "open", or "closed" when fclose left it
  tree,       \* the keys below the root node, and their values
  disk,       \* the registry file
  last,       \* the last call, whether it succeeded, and the value it told
  undefined   \* is it using a closed file or a node without a name

vars == <<root, loaded, regFile, tree, disk, last, undefined>>

Paths == Keys \ {<< >>}
StrValue(s) == [type |-> "str", data |-> s]
IntValue(i) == [type |-> "int", data |-> i]
Values == {StrValue(s) : s \in Strings} \cup {IntValue(i) : i \in Ints}

\* Keys are all the keys on the way to them; no value is None.
ASSUME RegistryAssumption ==
  /\ << >> \in Keys
  /\ \A key \in Keys : /\ key \in Seq(STRING)
                       /\ \A n \in 1..Len(key) : SubSeq(key, 1, n) \in Keys
  /\ None \notin Values
  /\ {Careful, LockMayFail} \subseteq BOOLEAN

EmptyTree == [keys |-> {}, values |-> [path \in Paths |-> << >>]]
Told(call, ok, value) == [call |-> call, ok |-> ok, value |-> value]

-----------------------------------------------------------------------------
(* Searches in the tree.                                                   *)

Places(t, path, name) ==
  {i \in DOMAIN t.values[path] : t.values[path][i].name = name}

Has(t, path, name) == path \in t.keys /\ Places(t, path, name) # {}

\* The search stops at the first value of the name.
FirstOf(t, path, name) ==
  CHOOSE i \in Places(t, path, name) : \A j \in Places(t, path, name) : i <= j

Found(t, path, name) == t.values[path][FirstOf(t, path, name)].value

(* Changes of the tree.                                                    *)

\* Mutant: the root is one of its own keys.
WayWithRoot(path) == {SubSeq(path, 1, n) : n \in 0..Len(path)}

\* SU_RB_CreateKeys makes every key on the way.
Way(path) == {SubSeq(path, 1, n) : n \in 1..Len(path)}

\* Mutant: both look it up with _SU_RB_ReadIntValue.
ReusableInt(t, path, name) == Has(t, path, name) /\ Found(t, path, name).type = "int"

\* Both setters look the value up with _SU_RB_ReadStrValue.
Reusable(t, path, name) == Has(t, path, name) /\ Found(t, path, name).type = "str"

WithValue(t, path, name, value) ==
  [keys |-> t.keys \cup Way(path),
   values |->
     [t.values EXCEPT ![path] =
        IF Reusable(t, path, name)
          THEN [@ EXCEPT ![FirstOf(t, path, name)].value = value]
          ELSE Append(@, [name |-> name, value |-> value])]]

WithoutValue(t, path, name) ==
  [t EXCEPT !.values[path] = RemoveAt(@, FirstOf(t, path, name))]

\* Mutant: the keys below stay in the tree.
Alone(path) == {path}

Below(path) == {p \in Paths : IsPrefix(path, p)}

WithoutKey(t, path) ==
  [keys |-> t.keys \ Below(path),
   values |-> [p \in Paths |-> IF p \in Below(path) THEN << >> ELSE t.values[p]]]

-----------------------------------------------------------------------------
Init ==
  /\ root = FALSE /\ loaded = FALSE /\ regFile = "null" /\ tree = EmptyTree
  /\ disk = [state |-> "absent", tree |-> EmptyTree]
  /\ last = Told(<<"exit">>, TRUE, None)
  /\ undefined = FALSE

IsOpen == regFile = "open" /\ loaded

MayCall == ~undefined /\ (Careful => IsOpen \/ ~root)

\* Mutant: an open registry is not saved.
Unflushed == disk

\* The file after SU_RB_CloseRegistry, as the next open sees it: what an older,
\* longer file leaves at the end is not read, which goes by the counts.
Flushed == IF IsOpen THEN [state |-> "whole", tree |-> tree] ELSE disk

\* What is not null is taken to be open: SU_RB_CloseRegistry rewinds a closed
\* file, and writes the name of a root node that was given none.  The program
\* does not come back from it.
UseUnopened ==
  /\ regFile # "null" /\ ~IsOpen
  /\ undefined' = TRUE
  /\ UNCHANGED <<root, loaded, regFile, tree, disk, last>>

\* A file that cannot be opened, not even made, leaves a new root node.
OpenNoPath ==
  /\ loaded' = FALSE /\ regFile' = "null" /\ tree' = EmptyTree /\ disk' = Flushed
  /\ last' = Told(<<"open">>, FALSE, None)

\* Without a lock the file is closed, and still the registry file.
OpenNoLock ==
  /\ LockMayFail
  /\ loaded' = FALSE /\ regFile' = "closed" /\ tree' = EmptyTree
  /\ disk' = IF Flushed.state = "absent" THEN [Flushed EXCEPT !.state = "empty"]
                                         ELSE Flushed
  /\ last' = Told(<<"open">>, FALSE, None)

OpenNew ==
  /\ Flushed.state = "absent"
  /\ loaded' = TRUE /\ regFile' = "open" /\ tree' = EmptyTree
  /\ disk' = [Flushed EXCEPT !.state = "empty"]
  /\ last' = Told(<<"open">>, TRUE, None)

\* A file that was made but never written has no root node to read.
OpenLoad ==
  /\ Flushed.state # "absent"
  /\ loaded' = (Flushed.state = "whole") /\ regFile' = "open"
  /\ tree' = Flushed.tree /\ disk' = Flushed
  /\ last' = Told(<<"open">>, loaded', None)

OpenRegistry ==
  /\ ~undefined
  /\ \/ UseUnopened
     \/ /\ regFile = "null" \/ IsOpen
        /\ OpenNoPath \/ OpenNoLock \/ OpenNew \/ OpenLoad
        /\ root' = TRUE /\ UNCHANGED undefined

CloseRegistry ==
  /\ ~undefined
  /\ \/ UseUnopened
     \/ /\ regFile = "null" \/ IsOpen
        /\ IF IsOpen
             THEN /\ root' = FALSE /\ loaded' = FALSE /\ regFile' = "null"
                  /\ tree' = EmptyTree /\ disk' = Flushed
             ELSE UNCHANGED <<root, loaded, regFile, tree, disk>>
        /\ last' = Told(<<"close">>, TRUE, None) /\ UNCHANGED undefined

\* The program ends, or crashes, without closing the registry: only the file
\* is left.
Exit ==
  /\ root' = FALSE /\ loaded' = FALSE /\ regFile' = "null" /\ tree' = EmptyTree
  /\ last' = Told(<<"exit">>, TRUE, None)
  /\ undefined' = FALSE /\ UNCHANGED disk

-----------------------------------------------------------------------------
Keep == UNCHANGED <<root, loaded, regFile, disk, undefined>>

\* SU_RB_CreateKeys answers no node without a root or without a key.
SetValue(path, name, value) ==
  LET ok == root /\ path \in Paths
  IN  /\ MayCall
      /\ Careful /\ path \in Paths /\ Has(tree, path, name)
           => Found(tree, path, name).type = "str"
      /\ tree' = IF ok THEN WithValue(tree, path, name, value) ELSE tree
      /\ last' = Told(<<"set", path, name, value>>, ok, None)
      /\ Keep

CreateKeys(path) ==
  LET ok == root /\ path \in Paths
  IN  /\ MayCall
      /\ tree' = IF ok THEN [tree EXCEPT !.keys = @ \cup Way(path)] ELSE tree
      /\ last' = Told(<<"createkeys", path>>, ok, None)
      /\ Keep

SetStrValue(path, name, s) == SetValue(path, name, StrValue(s))
SetIntValue(path, name, i) == SetValue(path, name, IntValue(i))

\* What is not there is the default.
GetValue(path, name, type) ==
  LET found == root /\ path \in Paths /\ Has(tree, path, name)
      ok == found => Found(tree, path, name).type = type
  IN  /\ MayCall
      /\ last' = Told(<<"get", path, name, type>>, ok,
                      IF found /\ ok THEN Found(tree, path, name) ELSE None)
      /\ Keep /\ UNCHANGED tree

GetStrValue(path, name) == GetValue(path, name, "str")
GetIntValue(path, name) == GetValue(path, name, "int")

DelValue(path, name) ==
  LET ok == root /\ path \in Paths /\ Has(tree, path, name)
  IN  /\ MayCall
      /\ tree' = IF ok THEN WithoutValue(tree, path, name) ELSE tree
      /\ last' = Told(<<"delvalue", path, name>>, ok, None)
      /\ Keep

\* SU_RB_OpenKeys answers no node for the parent of a key on the top level.
DelKey(path) ==
  LET ok == root /\ Len(path) > 1 /\ path \in tree.keys
  IN  /\ MayCall
      /\ tree' = IF ok THEN WithoutKey(tree, path) ELSE tree
      /\ last' = Told(<<"delkey", path>>, ok, None)
      /\ Keep

Next ==
  \/ OpenRegistry \/ CloseRegistry \/ Exit
  \/ \E path \in Keys, name \in Names :
       \/ \E s \in Strings : SetStrValue(path, name, s)
       \/ \E i \in Ints : SetIntValue(path, name, i)
       \/ GetStrValue(path, name)
       \/ GetIntValue(path, name)
       \/ DelValue(path, name)
  \/ \E path \in Keys : CreateKeys(path)
  \/ \E path \in Paths : DelKey(path)

Spec == Init /\ [][Next]_vars

-----------------------------------------------------------------------------
Calls ==
  {<<c>> : c \in {"open", "close", "exit"}}
    \cup ({"set"} \X Keys \X Names \X Values)
    \cup ({"get"} \X Keys \X Names \X {"str", "int"})
    \cup ({"delvalue"} \X Keys \X Names)
    \cup ({"createkeys"} \X Keys) \cup ({"delkey"} \X Paths)

IsTree(t) ==
  /\ t.keys \subseteq Paths /\ DOMAIN t.values = Paths
  /\ \A path \in Paths :
       t.values[path] \in Seq([name : Names, value : Values])

\* The types of the variables: the registry is a tree of known keys and
\* values, and what is not there has no content.
TypeOK ==
  /\ root \in BOOLEAN /\ loaded \in BOOLEAN /\ undefined \in BOOLEAN
  /\ regFile \in {"null", "open", "closed"}
  /\ IsTree(tree) /\ IsTree(disk.tree)
  /\ disk.state \in {"absent", "empty", "whole"}
  /\ disk.state # "whole" => disk.tree = EmptyTree
  /\ ~root => tree = EmptyTree
  /\ last.call \in Calls /\ last.ok \in BOOLEAN /\ last.value \in Values \cup {None}

\* The keys of the registry are reached from its root, and a key that was
\* deleted takes what is below it along (skyutils.h, SU_RB_DelKey): neither in
\* memory nor in the file is there a key without its parent, or a value without
\* its key.
NothingDetached ==
  \A t \in {tree, disk.tree} :
    /\ \A path \in t.keys : Way(path) \subseteq t.keys
    /\ \A path \in Paths : t.values[path] # << >> => path \in t.keys

\* A name has one value in a key, in memory and in the file: no setter leaves
\* an older value that a search finds first, or that comes back when the first
\* is deleted.  It depends on the order of calls that set and delete.
NoShadowedValue ==
  \A t \in {tree, disk.tree}, path \in Paths : \A i, j \in DOMAIN t.values[path] :
    t.values[path][i].name = t.values[path][j].name => i = j

\* A setter of an open registry that answers true has set the value that a
\* getter finds (registry.c:1316, "Try to read existing Value").
SetIsSeen ==
  [][\A path \in Paths, name \in Names, value \in Values :
       IsOpen /\ last' = Told(<<"set", path, name, value>>, TRUE, None) /\ last' # last
         => Found(tree', path, name) = value]_vars

\* Opening and closing, in any order and after any error, never uses a registry
\* file that is not open (registry.c:1043, "If a registry is opened, close it").
NeverUndefined == ~undefined

Entry(t) ==
  [e \in Paths \X Names |-> IF Has(t, e[1], e[2]) THEN Found(t, e[1], e[2]) ELSE None]

\* For a program that keeps to the rules the registry is a map: the search
\* order, the keys made on the way and the file do not show, each call tells
\* what the map tells, and a close followed by an open gives back all of it.
KS == INSTANCE KeyStore WITH
        store <- IF IsOpen THEN Entry(tree) ELSE Entry(EmptyTree),
        saved <- Entry(disk.tree), opened <- IsOpen

ImplementsStore == KS!Spec
=============================================================================
