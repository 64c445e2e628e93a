------------------------------ MODULE Archive ------------------------------
(* The resource archives of arch.c, built without compression libraries:    *)
(* an archive is made, filled and closed, opened again, read, appended to a *)
(* program, cut short. A file is a sequence of items: signature, count,     *)
(* header or offset of an archive, or one byte of content.                  *)
EXTENDS Integers, SequencesExt, FiniteSetsExt

CONSTANTS Contents,   \* what buffers and source files hold: sequences of bytes
          Indexes,    \* resource indexes, 0 for none among them
          Names,      \* resource names, NoName for none among them
          NoName,
          MaxRes      \* resources of an archive

VARIABLES disk,       \* the source file's content, or Gone
          file,       \* the archive file
          arch,       \* the archive object the client has, with its resources
          out,        \* what is in the file a resource of the open archive was last saved to, << >> if it is not there or none was saved
          promised,   \* (history) what the last successful close put into the file
          cut         \* (history) the file lost its end, in the close or since

vars == <<disk, file, arch, out, promised, cut>>

Gone == <<"gone">>
NULL == [mode |-> "none", res |-> << >>]
NONE == "NONE"      \* SU_ARCH_COMP_NONE; any other type is "other": this build supports none
Sig == [is |-> "signature"]
Count(n) == [is |-> "count", n |-> n]
Ofs(at) == [is |-> "offset", at |-> at]
Byte(b) == [is |-> "byte", b |-> b]
Bytes(c) == [i \in DOMAIN c |-> Byte(c[i])]
Hdr(r) == [is |-> "header", comp |-> r.comp, orig |-> r.orig, type |-> r.type, index |-> r.index, name |-> r.name]

Init ==
  /\ disk \in Contents \cup {Gone} /\ file = << >> /\ arch = NULL /\ out = << >>
  /\ promised = << >> /\ cut = FALSE

-----------------------------------------------------------------------------
(* Making an archive.                                                       *)
\* Variant of CheckIndexNameUnique that forgets the names.
CheckIndexUnique(index, name) == \A i \in DOMAIN arch.res : index # 0 => arch.res[i].index # index
CheckIndexNameUnique(index, name) ==
  \A i \in DOMAIN arch.res :
    /\ index # 0 => arch.res[i].index # index
    /\ name # NoName => arch.res[i].name # name

SU_AR_CreateArchive ==
  /\ arch = NULL
  /\ file' = << >> /\ arch' = [mode |-> "write", res |-> << >>]
  /\ promised' = << >> /\ UNCHANGED <<disk, out, cut>>

Put(r) ==
  /\ arch.mode = "write" /\ Len(arch.res) < MaxRes
  /\ CheckIndexNameUnique(r.index, r.name)
  /\ arch' = [arch EXCEPT !.res = Append(@, r)]
  /\ UNCHANGED <<disk, file, out, promised, cut>>

\* A buffer is copied now. (Of a type that is not supported the call would take the resource back by freeing a pointer into the
\* table: SU_AR_SupportedComps tells the client which types there are.)
SU_AR_AddRes ==
  \E c \in Contents, index \in Indexes, name \in Names :
    Put([isfile |-> FALSE, data |-> c, orig |-> Len(c), comp |-> Len(c), type |-> NONE, index |-> index, name |-> name])

\* A file is only looked at: it is read when the archive is closed.
SU_AR_AddResFile ==
  /\ disk # Gone
  /\ \E type \in {NONE, "other"}, index \in Indexes, name \in Names :
       Put([isfile |-> TRUE, data |-> << >>, orig |-> 0, comp |-> 0, type |-> type, index |-> index, name |-> name])

\* _SU_AR_CompressFile: the sizes, from the file as it is now. A file that cannot be read keeps size 0.
Compressed(r) ==
  IF ~r.isfile \/ disk = Gone THEN r
  ELSE [r EXCEPT !.orig = Len(disk), !.comp = IF r.type = NONE THEN Len(disk) ELSE 0]
CompressFails(r) == r.isfile /\ (disk = Gone \/ r.type # NONE)

\* _SU_AR_CopyFileToArchive: a file that has become shorter gives nothing of the block that is not there (a block holds every content).
CopyFails(r) == r.isfile /\ (disk = Gone \/ (disk # Gone /\ Len(disk) < r.comp))
Copied(r) == IF CopyFails(r) THEN << >> ELSE IF r.isfile THEN SubSeq(disk, 1, r.comp) ELSE r.data

\* Closing writes the head, then for each resource its header and its content, then the offset. i is the resource, ok what the call will answer.
BeginFlush ==
  /\ arch.mode = "write"
  /\ file' = <<Sig, Count(Len(arch.res))>>
  /\ arch' = [mode |-> "header", res |-> arch.res, i |-> 1, ok |-> TRUE, put |-> << >>]
  /\ UNCHANGED <<disk, out, promised, cut>>
FlushHeader ==
  /\ arch.mode = "header" /\ arch.i <= Len(arch.res)
  /\ LET r == Compressed(arch.res[arch.i]) IN
       /\ file' = Append(file, Hdr(r))
       /\ arch' = [arch EXCEPT !.mode = "data", !.res[arch.i] = r, !.ok = @ /\ ~CompressFails(arch.res[arch.i])]
  /\ UNCHANGED <<disk, out, promised, cut>>
FlushData ==
  /\ arch.mode = "data"
  /\ LET r == arch.res[arch.i] IN
       /\ file' = file \o Bytes(Copied(r))
       /\ arch' = [arch EXCEPT !.mode = "header", !.i = @ + 1, !.ok = @ /\ ~CopyFails(r),
                               !.put = Append(@, [index |-> r.index, name |-> r.name, data |-> Copied(r)])]
  /\ UNCHANGED <<disk, out, promised, cut>>
\* When the disk is full, what stdio has kept is lost in fclose, and nobody asks what that answers.
EndFlush ==
  /\ arch.mode = "header" /\ arch.i > Len(arch.res)
  /\ LET whole == Append(file, Ofs(0)) IN
       \/ file' = whole /\ cut' = FALSE
       \/ \E n \in 0..(Len(whole) - 1) : file' = SubSeq(whole, 1, n) /\ cut' = TRUE
  /\ promised' = IF arch.ok THEN arch.put ELSE << >>
  /\ arch' = NULL /\ UNCHANGED <<disk, out>>
\* When that is noticed in an fwrite, the close goes on and answers false; the file has what went to the disk before. (One that has room again
\* before the close is through is not modelled: what the file has then, nobody was promised.)
WriteFails ==
  /\ arch.mode \in {"header", "data"}
  /\ \E n \in 0..Len(file) : file' = SubSeq(file, 1, n)
  /\ cut' = TRUE /\ arch' = NULL /\ UNCHANGED <<disk, out, promised>>

-----------------------------------------------------------------------------
(* Reading an archive.                                                      *)

\* _SU_AR_ReadHeaders from item `at` on: the resources with the places of their contents, no resources (NULL) if there is no archive or it ends
\* too early, or nobody knows what (Garbage) if bytes that are no header are taken for one. Seeking beyond the end succeeds.
Found(res) == [mode |-> "read", res |-> res]
Garbage == [mode |-> "garbage", res |-> << >>]
Sought(f, at) == IF at > Len(f) THEN Len(f) + 1 ELSE at
\* k headers from a place on; `rest` is what comes of k - 1 headers from each place on.
HeadersAt(f, k, at, rest) ==
  IF k = 0 THEN Found(<< >>)
  ELSE IF at > Len(f) THEN NULL
  ELSE IF f[at].is # "header" THEN Garbage
  ELSE LET after == rest[Sought(f, at + 1 + f[at].comp)] IN
       IF after.mode # "read" THEN after ELSE Found(<<[hdr |-> f[at], offset |-> at + 1]>> \o after.res)
Headers(f) == LET H[k \in 0..MaxRes] == [at \in 1..(Len(f) + 1) |-> HeadersAt(f, k, at, H[k - 1])] IN H
ReadHeaders(f, at) ==
  IF at + 1 > Len(f) THEN NULL
  ELSE IF f[at] # Sig THEN NULL
  ELSE IF f[at + 1].is # "count" THEN Garbage
  ELSE Headers(f)[f[at + 1].n][at + 2]

\* The archive is the file, or begins where the end of the file says; bytes that are no offset lead anywhere.
Starts(f) ==
  IF ReadHeaders(f, 1).mode # "none" \/ f = << >> THEN {1}
  ELSE IF Last(f).is = "offset" THEN {Last(f).at + 1} ELSE 1..(Len(f) + 1)

SU_AR_OpenArchive ==
  /\ arch = NULL
  /\ \E at \in Starts(file) : arch' = ReadHeaders(file, at)
  /\ UNCHANGED <<disk, file, out, promised, cut>>

\* The content of a resource, << >> if it cannot be read whole. ReadRes to memory takes the compressed size, to a file the original size.
ReadResource(f, r, size) ==
  IF r.offset + size - 1 > Len(f) \/ r.hdr.type # NONE THEN << >>
  ELSE <<[i \in 1..size |-> f[r.offset + i - 1]]>>
SU_AR_ReadRes(a, f, k) == IF k \notin DOMAIN a.res THEN << >> ELSE ReadResource(f, a.res[k], a.res[k].hdr.comp)
ResIndex(a, index) == SelectInSeq(a.res, LAMBDA r : r.hdr.index = index)
ResName(a, name) == SelectInSeq(a.res, LAMBDA r : r.hdr.name # NoName /\ r.hdr.name = name)

\* The output is made before the resource is looked at, and removed again if that fails.
SU_AR_ReadResToFile ==
  /\ arch.mode = "read"
  /\ \E k \in DOMAIN arch.res :
       out' = ReadResource(file, arch.res[k], arch.res[k].hdr.orig)
  /\ UNCHANGED <<disk, file, arch, promised, cut>>

\* Without Flush, closing only frees the object. (Of garbage the client can make no use but to close it.)
SU_AR_CloseArchive ==
  /\ arch.mode \in {"read", "garbage"} /\ arch' = NULL /\ out' = << >> /\ UNCHANGED <<disk, file, promised, cut>>

-----------------------------------------------------------------------------
(* What happens around the archive.                                         *)
ChangeSource == disk' \in Contents \cup {Gone} /\ UNCHANGED <<file, arch, out, promised, cut>>

\* examples/AppendArchiveToBinary: the program, the archive, and where the archive begins. (An archive that had lost its end, also one whose close
\* answered true on a full disk, would be given these last bytes for content: that is not modelled.)
AppendToBinary ==
  /\ arch = NULL /\ ~cut /\ file # << >> /\ (file # << >> => file[1] = Sig)
  /\ \E program \in Contents \ {<< >>} : file' = Bytes(program) \o file \o <<Ofs(Len(program))>>
  /\ UNCHANGED <<disk, arch, out, promised, cut>>

\* The file is copied only in part.
LoseEnd ==
  /\ arch = NULL /\ \E n \in 0..(Len(file) - 1) : file' = SubSeq(file, 1, n)
  /\ cut' = TRUE /\ UNCHANGED <<disk, arch, out, promised>>

Next ==
  \/ SU_AR_CreateArchive \/ SU_AR_AddRes \/ SU_AR_AddResFile
  \/ BeginFlush \/ FlushHeader \/ FlushData \/ EndFlush \/ WriteFails
  \/ SU_AR_OpenArchive \/ SU_AR_ReadResToFile \/ SU_AR_CloseArchive
  \/ ChangeSource \/ AppendToBinary \/ LoseEnd
-----------------------------------------------------------------------------
TypeOK ==
  /\ disk \in Contents \cup {Gone} /\ cut \in BOOLEAN
  /\ arch.mode \in {"none", "write", "header", "data", "read", "garbage"}
  /\ Len(arch.res) <= MaxRes /\ Len(promised) <= MaxRes

\* What a close that answers true has put into the file comes back, from the archive or from a program it was appended to: every resource, under
\* its number, its index and its name, with the content its source had when it was copied, though sources change between the calls and
\* during the close. It does not if the disk was full in fclose, for all that the close answers true, or if the file has lost its end since: but
\* each resource comes whole or not at all then.
ArchiveKeepsAll ==
  arch = NULL /\ promised # << >> =>
    \A at \in Starts(file) :
      LET a == ReadHeaders(file, at)
          Read(k) == SU_AR_ReadRes(a, file, k)
      IN /\ ~cut => a.mode = "read" /\ Len(a.res) = Len(promised)
         /\ \A k \in DOMAIN a.res :
              LET r == promised[k] IN
              /\ Read(k) = <<Bytes(r.data)>> \/ (cut /\ Read(k) = << >>)
              /\ ReadResource(file, a.res[k], a.res[k].hdr.orig) = Read(k)
              /\ r.index # 0 => ResIndex(a, r.index) = k
              /\ r.name # NoName => ResName(a, r.name) = k
=============================================================================
