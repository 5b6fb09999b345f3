------------------------------ MODULE Progress ------------------------------
(***************************************************************************)
(* The progress of an upload (internal/client/photonagent/progress.go) and *)
(* of a download (internal/downloader/progress.go): a counter behind a     *)
(* mutex, and a goroutine that logs it on every tick.  The two differ only *)
(* in who reads: the upload's Read does, and counts; for the download a    *)
(* TeeReader does and hands what it has read to Write.                     *)
(*                                                                         *)
(* Bytes are counted in blocks.                                            *)
(***************************************************************************)
EXTENDS Naturals

CONSTANTS
    Unknown,    \* a Content-Length of -1
    MaxBlock    \* what one read returns at most

VARIABLES
    totalBytes, \* the size the file or the response claimed to have
    left,       \* what the reader has yet to return
    block,      \* what has been read and not yet counted
    bytesRead,
    locked,     \* the mutex, where it is held across steps
    reader, ticker

vars == <<totalBytes, left, block, bytesRead, locked, reader, ticker>>
goroutine == <<locked, ticker>>

TypeOK ==
    /\ totalBytes \in Nat \cup {Unknown}
    /\ left \in Nat /\ block \in Nat /\ bytesRead \in Nat
    /\ locked \in BOOLEAN
    /\ reader \in {"reading", "counting", "ended", "stopped"}
    /\ ticker \in {"waiting", "reporting", "gone"}

(* The size is the one the reader will return, or is not known.            *)
InitWith(n, total) ==
    /\ totalBytes = total /\ left = n
    /\ block = 0 /\ bytesRead = 0
    /\ locked = FALSE
    /\ reader = "reading" /\ ticker = "waiting"

Init == \E n \in Nat : InitWith(n, n) \/ InitWith(n, Unknown)

-----------------------------------------------------------------------------
(* Mutant: the mutex is taken before the read, whatever it returns.        *)
ReadLocksFirst ==
    /\ reader = "reading" /\ ~ locked
    /\ reader' = IF left = 0 THEN "ended" ELSE "counting"
    /\ IF left = 0 THEN UNCHANGED <<left, block>>
       ELSE block' \in 1..MaxBlock /\ block' <= left /\ left' = left - block'
    /\ UNCHANGED <<totalBytes, bytesRead, goroutine>>

(* The end of the data or an error is returned without the mutex.          *)
Read ==
    /\ reader = "reading"
    /\ \/ /\ block' \in 1..MaxBlock /\ block' <= left
          /\ left' = left - block'
          /\ reader' = "counting"
       \/ /\ left = 0
          /\ reader' = "ended"
          /\ UNCHANGED <<left, block>>
    /\ UNCHANGED <<totalBytes, bytesRead, goroutine>>

ReadFails ==
    /\ reader = "reading"
    /\ reader' = "ended"
    /\ UNCHANGED <<totalBytes, left, block, bytesRead, goroutine>>

(* Mutant: the caller of Read adds what it was given as well.             *)
CountTwice ==
    /\ reader = "counting"
    /\ ~ locked
    /\ bytesRead' = bytesRead + 2 * block
    /\ block' = 0
    /\ reader' = "reading"
    /\ UNCHANGED <<totalBytes, left, goroutine>>

Count ==
    /\ reader = "counting"
    /\ ~ locked
    /\ bytesRead' = bytesRead + block
    /\ block' = 0
    /\ reader' = "reading"
    /\ UNCHANGED <<totalBytes, left, goroutine>>

(* Stop closes the channel.                                                *)
Stop ==
    /\ reader # "stopped"
    /\ reader' = "stopped"
    /\ UNCHANGED <<totalBytes, left, block, bytesRead, goroutine>>

-----------------------------------------------------------------------------
(* The goroutine *)

Tick ==
    /\ ticker = "waiting" /\ ~ locked
    /\ ticker' = "reporting" /\ locked' = TRUE
    /\ UNCHANGED <<totalBytes, left, block, bytesRead, reader>>

(* All is read: it returns, and the mutex stays locked.                    *)
ReportsNoMore ==
    /\ ticker = "reporting"
    /\ bytesRead = totalBytes
    /\ ticker' = "gone"
    /\ UNCHANGED <<totalBytes, left, block, bytesRead, locked, reader>>

Reports ==
    /\ ticker = "reporting"
    /\ bytesRead # totalBytes
    /\ ticker' = "waiting" /\ locked' = FALSE
    /\ UNCHANGED <<totalBytes, left, block, bytesRead, reader>>

Stopped ==
    /\ ticker = "waiting"
    /\ reader = "stopped"
    /\ ticker' = "gone"
    /\ UNCHANGED <<totalBytes, left, block, bytesRead, locked, reader>>

Goroutine == Tick \/ ReportsNoMore \/ Reports \/ Stopped

Next == Read \/ ReadFails \/ Count \/ Stop \/ Goroutine

Spec == Init /\ [][Next]_vars

-----------------------------------------------------------------------------
(* The goroutine leaves the mutex locked only when nothing is left that    *)
(* would be counted: no reader ever waits for it for good.                 *)
LeftLockedAtTheEnd ==
    locked /\ ticker = "gone" => left = 0 /\ block = 0
=============================================================================
