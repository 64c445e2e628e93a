----------------------------- MODULE SharedFile -----------------------------
(* SU_CreateFile, SU_OpenFile, SU_WriteFile and SU_CloseFile of utils.c on  *)
(* unix, on one path that several programs use: each of the two opens in    *)
(* one or more steps, and anybody may remove the file between them.         *)
EXTENDS Integers, Sequences

CONSTANTS Programs, MaxWrites

VARIABLES file,        \* what is on the path: <<>> for no file, else <<the writes in it>>
          call,        \* the call of each program, the step it is at, and (history) whether the file has been there since it began, and was refused
          handle,      \* the mode of its SU_FILE_HANDLE, or "NULL", its offset, and whether its file is still the one on the path
          writes,      \* how many writes there were: the next one's number
          emptied      \* (history) programs a call of which was not asked to, and emptied a file that had been there since it began

vars == <<file, call, handle, writes, emptied>>

NoCall == [step |-> "none", access |-> "none", create |-> FALSE, there |-> FALSE, refused |-> FALSE]
NoHandle == [mode |-> "NULL", offset |-> 0, linked |-> FALSE]
Exists == file # << >>
Init ==
  /\ file = << >> /\ call = [p \in Programs |-> NoCall] /\ handle = [p \in Programs |-> NoHandle]
  /\ writes = 0 /\ emptied = {}

\* fopen (external): "wb" makes the file, and empties it; "ab" makes it; "rb", and "rwb", which is "rb", need it.
Opens(p, mode) ==
  /\ mode = "rb" => Exists
  /\ file' = IF mode = "rb" \/ (mode = "ab" /\ Exists) THEN file ELSE << << >> >>
  /\ emptied' = IF mode = "wb" /\ call[p].there /\ ~call[p].refused /\ call[p].access \notin {"any", "write"}
                THEN emptied \cup {p} ELSE emptied
  /\ handle' = [handle EXCEPT ![p] = [mode |-> mode, offset |-> 0, linked |-> TRUE]]
To(p, step) == call' = [call EXCEPT ![p].step = step]
Returns(p) == call' = [call EXCEPT ![p] = NoCall]
Begin(p, step, access, create) ==
  /\ call[p] = NoCall /\ handle[p] = NoHandle
  /\ call' = [call EXCEPT ![p] = [step |-> step, access |-> access, create |-> create, there |-> Exists, refused |-> FALSE]]
  /\ UNCHANGED <<file, handle, writes, emptied>>

-----------------------------------------------------------------------------
SU_CreateFile(p) == \E FailIsExists \in BOOLEAN : Begin(p, IF FailIsExists THEN "check" ELSE "create", IF FailIsExists THEN "new" ELSE "any", FALSE)
\* Variant of Checked for a check that never finds the file.
NeverThere(p) == FALSE
Checked(p) == Exists
Check(p) ==
  /\ call[p].step = "check"
  /\ \/ IF Checked(p) THEN Returns(p) ELSE To(p, "create")
     \/ call' = [call EXCEPT ![p].step = "create", ![p].refused = Exists]    \* it may not be opened just now
  /\ UNCHANGED <<file, handle, writes, emptied>>

Mode == [read |-> "rb", write |-> "wb", append |-> "ab", both |-> "rb"]
SU_OpenFile(p) == \E access \in DOMAIN Mode, CreateIfNotPresent \in BOOLEAN : Begin(p, "open", access, CreateIfNotPresent)
Open(p) ==
  /\ call[p].step = "open" /\ Opens(p, Mode[call[p].access]) /\ Returns(p)
  /\ UNCHANGED writes
\* It is not there, or may not be opened just now: with CreateIfNotPresent it is made, closed and opened again.
OpenFails(p) ==
  /\ call[p].step = "open"
  /\ IF call[p].create THEN call' = [call EXCEPT ![p].step = "create", ![p].refused = Exists] ELSE Returns(p)
  /\ UNCHANGED <<file, handle, writes, emptied>>
Create(p) ==
  /\ call[p].step = "create" /\ Opens(p, "wb")
  /\ IF call[p].access \in DOMAIN Mode THEN call' = [call EXCEPT ![p].step = "close"] ELSE Returns(p)
  /\ UNCHANGED writes
CreateFails(p) == call[p].step = "create" /\ Returns(p) /\ UNCHANGED <<file, handle, writes, emptied>>
Reopen(p) ==
  /\ call[p].step = "close"
  /\ handle' = [handle EXCEPT ![p] = NoHandle] /\ call' = [call EXCEPT ![p].step = "open", ![p].create = FALSE]
  /\ UNCHANGED <<file, writes, emptied>>

-----------------------------------------------------------------------------
\* A write goes where the handle stands, or to the end. (The buffer of stdio is written at once.)
At(content, k, w) == [i \in 1..(IF k > Len(content) THEN k ELSE Len(content)) |-> IF i = k THEN w ELSE IF i \in DOMAIN content THEN content[i] ELSE 0]
SU_WriteFile(p) ==
  /\ call[p] = NoCall /\ handle[p].mode \in {"wb", "ab"} /\ writes < MaxWrites
  /\ IF handle[p].linked
     THEN LET k == IF handle[p].mode = "ab" THEN Len(file[1]) + 1 ELSE handle[p].offset + 1 IN
          /\ file' = <<At(file[1], k, writes + 1)>>
          /\ handle' = [handle EXCEPT ![p].offset = k]
     ELSE UNCHANGED <<file, handle>>
  /\ writes' = writes + 1 /\ UNCHANGED <<call, emptied>>
SU_CloseFile(p) ==
  /\ call[p] = NoCall /\ handle[p] # NoHandle /\ handle' = [handle EXCEPT ![p] = NoHandle]
  /\ UNCHANGED <<file, call, writes, emptied>>

\* Somebody removes the file. Who has it open goes on with a file that is on no path.
Remove ==
  /\ Exists /\ file' = << >>
  /\ call' = [p \in Programs |-> [call[p] EXCEPT !.there = FALSE]]
  /\ handle' = [p \in Programs |-> [handle[p] EXCEPT !.linked = FALSE]]
  /\ UNCHANGED <<writes, emptied>>

Next ==
  \/ Remove
  \/ \E p \in Programs :
       \/ SU_CreateFile(p) \/ Check(p) \/ SU_OpenFile(p) \/ Open(p) \/ OpenFails(p) \/ Create(p) \/ CreateFails(p) \/ Reopen(p)
       \/ SU_WriteFile(p) \/ SU_CloseFile(p)
Spec == Init /\ [][Next]_vars
-----------------------------------------------------------------------------
TypeOK ==
  /\ writes \in 0..MaxWrites /\ Len(file) <= 1 /\ emptied \subseteq Programs
  /\ \A p \in Programs : handle[p].mode \in {"NULL", "rb", "wb", "ab"} /\ call[p].step \in {"none", "check", "create", "open", "close"}

\* A call that is not asked for an empty file, with FailIsExists, or for reading or appending, empties one in two cases only: the file was missing at
\* some time since the call began, before it or after others removed it, and somebody made it between the call's two opens; or it was there all the
\* time, but the call was not let open it at first (with CreateIfNotPresent, for which skyutils.h says "file does not exist", it is emptied then).
NotEmptiedUnasked == emptied = {}
=============================================================================
