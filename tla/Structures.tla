----------------------------- MODULE Structures -----------------------------
(* The parts of the library whose calls only deal with what their callers   *)
(* have in memory, or in an archive: lists, strings, allocated blocks,      *)
(* archives, pages. They share no state, so each behaviour is one of a      *)
(* single part: which one is chosen at the start.                           *)
EXTENDS AlignedAlloc, FiniteSets, Sequences

CONSTANTS
  Out,                                     \* the state of a part that another behaviour is of
  Null,                                     \* no cell, no name
  Cells, Elems,                            \* of LinkedList
  Letters, MaxWord, Size, Users,           \* of Words
  FileContents, Indexes, ResNames, MaxRes,     \* of Archive
  Hosts, Dotted, InputNames, EncodedBytes         \* of WebPages

\* NULL is no cell; there is something to put into a list; files hold sequences.
ContentBytes == UNION {{c[i] : i \in DOMAIN c} : c \in FileContents}
ASSUME StructuresAssumption ==
  /\ IsFiniteSet(Cells) /\ Null \notin Cells /\ Elems # {}
  /\ FileContents \subseteq Seq(ContentBytes) /\ MaxRes \in Nat

VARIABLES structure,   \* the part this behaviour is of; Out: none of these
  list_kind, list_used, list_cell, list_list, list_op,
  words_fn, words_arg, words_answer, words_own, words_text, words_cursor, words_current, words_told,
  arch_disk, arch_file, arch_arch, arch_out, arch_promised, arch_cut,
  page_fn, page_arg, page_answer, page_cursor, page_inputs

List == INSTANCE LinkedList WITH
  NoCell <- Null, kind <- list_kind, used <- list_used, cell <- list_cell,
  list <- list_list, op <- list_op
Words == INSTANCE Words WITH
  fn <- words_fn, arg <- words_arg,
  answer <- words_answer, own <- words_own, text <- words_text, cursor <- words_cursor, current <- words_current,
  told <- words_told
Arch == INSTANCE Archive WITH
  Contents <- FileContents, Names <- ResNames \cup {Null}, NoName <- Null,
  disk <- arch_disk, file <- arch_file, arch <- arch_arch, out <- arch_out, promised <- arch_promised, cut <- arch_cut
Page == INSTANCE WebPages WITH
  Bytes <- EncodedBytes, Names <- InputNames, NoName <- Null, fn <- page_fn, arg <- page_arg, answer <- page_answer, cursor <- page_cursor, inputs <- page_inputs

-----------------------------------------------------------------------------
AllStructures == {"list", "words", "block", "arch", "page"}
\* A part that is not the one has no state; that of AlignedAlloc, which this module extends, stays in an initial state.
StructuresInit ==
  /\ structure \in AllStructures \cup {Out}
  /\ AllocInit
  /\ IF structure = "list" THEN List!Init
     ELSE list_kind = Out /\ list_used = Out /\ list_cell = Out /\ list_list = Out /\ list_op = Out
  /\ IF structure = "words" THEN Words!Init
     ELSE words_fn = Out /\ words_arg = Out /\ words_answer = Out /\ words_own = Out /\ words_text = Out /\
          words_cursor = Out /\ words_current = Out /\ words_told = Out
  /\ IF structure = "arch" THEN Arch!Init
     ELSE arch_disk = Out /\ arch_file = Out /\ arch_arch = Out /\ arch_out = Out /\ arch_promised = Out /\
          arch_cut = Out
  /\ IF structure = "page" THEN Page!Init
     ELSE page_fn = Out /\ page_arg = Out /\ page_answer = Out /\ page_cursor = Out /\ page_inputs = Out

listVars == <<list_kind, list_used, list_cell, list_list, list_op>>
wordsVars == <<words_fn, words_arg, words_answer, words_own, words_text, words_cursor, words_current, words_told>>
archVars == <<arch_disk, arch_file, arch_arch, arch_out, arch_promised, arch_cut>>
pageVars == <<page_fn, page_arg, page_answer, page_cursor, page_inputs>>
\* Only the part that was chosen moves.
OthersRest(p) ==
  /\ UNCHANGED structure
  /\ p # "list" => UNCHANGED listVars
  /\ p # "words" => UNCHANGED wordsVars
  /\ p # "block" => UNCHANGED allocVars
  /\ p # "arch" => UNCHANGED archVars
  /\ p # "page" => UNCHANGED pageVars
StructuresNext ==
  \/ structure = "list" /\ List!Next /\ OthersRest("list")
  \/ structure = "words" /\ Words!Next /\ OthersRest("words")
  \/ structure = "block" /\ AllocNext /\ OthersRest("block")
  \/ structure = "arch" /\ Arch!Next /\ OthersRest("arch")
  \/ structure = "page" /\ Page!Next /\ OthersRest("page")
structuresVars == <<structure, listVars, wordsVars, allocVars, archVars, pageVars>>
StructuresSpec == StructuresInit /\ [][StructuresNext]_structuresVars
-----------------------------------------------------------------------------
\* Every part keeps its types.
StructuresTyped ==
  /\ structure = "list" => List!TypeOK
  /\ structure = "words" => Words!TypeOK
  /\ structure = "block" => AllocTypeOK
  /\ structure = "arch" => Arch!TypeOK
  /\ structure = "page" => Page!TypeOK

\* The cells malloc gave for a list are those the list reaches, each of them once, and nobody holds one that was freed (liste.c).
NoCellLost ==
  /\ structure = "list" => List!NoCellLost

\* What a call leaves in a list keeps its order and its data; a removal takes out what it should (liste.c).
SurvivorsKeepOrder == [][structure = "list" => List!Survivors]_listVars

\* Searches for wild words find what a wild word means (SU_strwcmp, SU_strwparse); lines, configurations, copies and searches tell what is in the
\* text; each user of SU_strparse_r, and a single one of SU_strparse, is told the pieces of his own string (string.c).
TextsTold ==
  /\ structure = "words" => Words!WildMatches /\ Words!LinesTold /\ Words!BuffersKept /\ Words!PiecesAreOwn

\* What a successful close has put into an archive is what its readers get (arch.c).
ArchiveKeepsAll ==
  /\ structure = "arch" => Arch!ArchiveKeepsAll

\* Links and frames lead where they say (SU_RetrieveLink, SU_RetrieveFrame), forms are told as they are in the page, and what is encoded can be
\* decoded (web.c).
PagesTold ==
  /\ structure = "page" => Page!AddressTold /\ Page!FormTold /\ Page!EncodingTold
=============================================================================
