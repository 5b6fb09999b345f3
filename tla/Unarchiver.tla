----------------------------- MODULE Unarchiver -----------------------------
(***************************************************************************)
(* internal/unarchiver/unarchiver.go: one call of Unarchive, which reads   *)
(* the entries of a tar stream as they arrive, compressed or not, writes   *)
(* each to a temporary file and renames that to the entry's name.          *)
(*                                                                         *)
(* The stream is cut into units: one for each whole entry and, after them, *)
(* one for the end marker or for an entry that the file is cut inside of.  *)
(***************************************************************************)
EXTENDS Naturals

CONSTANTS
    Absent,         \* no such directory
    FsMayFail       \* whether a system call can fail

VARIABLES
    file,           \* the archive: [entries, end, compressed]
    noCompression,  \* the option the call was given
    arrived,        \* units that have arrived
    body,           \* "open", "eof" after them, or "broken" with some lost
    unarchiving,    \* where the call is
    taken,          \* units it has read
    temp,           \* the entries in the destination directory, or Absent
    tmpFile         \* whether a temporary file lies there

callVars == <<unarchiving, taken, temp, tmpFile>>
streamVars == <<file, noCompression, arrived, body>>
vars == <<callVars, streamVars>>

Ends == {"marked", "boundary", "inside"}
Units(f) == f.entries + (IF f.end = "boundary" THEN 0 ELSE 1)

TypeOK ==
    /\ file \in [entries : Nat, end : Ends, compressed : BOOLEAN]
    /\ noCompression \in BOOLEAN
    /\ arrived \in 0..Units(file)
    /\ body \in {"open", "eof", "broken"}
    /\ unarchiving \in {"idle", "prepare", "header", "copy", "remove", "done", "failed"}
    /\ taken \in 0..arrived
    /\ temp = Absent \/ temp \in SUBSET (1..file.entries)
    /\ tmpFile \in BOOLEAN

Goes(from, to) ==
    /\ unarchiving = from
    /\ unarchiving' = to

(* bzip2 or tar finds out by the first bytes, of which there are some.     *)
Readable == file.compressed = ~ noCompression

Unread == arrived - taken
AtEnd == body = "eof" /\ Unread = 0

-----------------------------------------------------------------------------
(* The destination is there or is made; otherwise nothing is removed.      *)
Prepare ==
    /\ Goes("prepare", "header")
    /\ temp' = IF temp = Absent THEN {} ELSE temp
    /\ UNCHANGED <<taken, tmpFile, streamVars>>

PrepareFails ==
    /\ FsMayFail
    /\ Goes("prepare", "failed")
    /\ UNCHANGED <<taken, temp, tmpFile, streamVars>>

(* The header of a whole entry, and the temporary file for it.             *)
ReadHeader ==
    /\ Readable
    /\ Unread > 0 /\ taken < file.entries
    /\ Goes("header", "copy")
    /\ tmpFile' = TRUE
    /\ UNCHANGED <<taken, temp, streamVars>>

CopyAndRename ==
    /\ Goes("copy", "header")
    /\ taken' = taken + 1
    /\ temp' = temp \cup {taken'}
    /\ tmpFile' = FALSE
    /\ UNCHANGED streamVars

(* The loop ends at the end marker, or where a stream without compression  *)
(* stops between two entries: tar says io.EOF to both.                     *)
EndMark == Unread > 0 /\ taken = file.entries /\ file.end = "marked"
CleanEnd == AtEnd /\ noCompression

Finish ==
    /\ (Readable /\ EndMark) \/ CleanEnd
    /\ Goes("header", "done")
    /\ taken' = arrived
    /\ UNCHANGED <<temp, tmpFile, streamVars>>

(* What the readers report: a wrong format, an entry that is cut, a body   *)
(* that broke off, a compressed stream that stops early.                   *)
BadStream ==
    \/ ~ Readable /\ Unread > 0
    \/ Unread > 0 /\ taken = file.entries /\ file.end = "inside"
    \/ body = "broken"
    \/ AtEnd /\ ~ noCompression

(* Mutant: an unexpected end is taken for the end.                         *)
StreamFailureIsEnd ==
    /\ BadStream
    /\ Goes("header", "done")
    /\ taken' = arrived
    /\ UNCHANGED <<temp, tmpFile, streamVars>>

(* In a header; an entry cut inside can be copied in part before.          *)
StreamFails ==
    /\ BadStream
    /\ Goes("header", "remove")
    /\ UNCHANGED <<taken, temp, tmpFile, streamVars>>

(* A directory or a file of the entry cannot be made; the temporary file   *)
(* is removed on the way out of atomicWrite.                               *)
WriteFails ==
    /\ FsMayFail
    /\ \/ Unread > 0 /\ Goes("header", "remove")
       \/ Goes("copy", "remove")
    /\ tmpFile' = FALSE
    /\ UNCHANGED <<taken, temp, streamVars>>

(* The destination is removed; the call fails whether it can be or not.    *)
RemoveDestination ==
    /\ Goes("remove", "failed")
    /\ \/ temp' = Absent /\ tmpFile' = FALSE
       \/ FsMayFail /\ UNCHANGED <<temp, tmpFile>>
    /\ UNCHANGED <<taken, streamVars>>

Next ==
    \/ Prepare \/ PrepareFails
    \/ ReadHeader \/ CopyAndRename \/ WriteFails
    \/ Finish \/ StreamFails
    \/ RemoveDestination
=============================================================================
