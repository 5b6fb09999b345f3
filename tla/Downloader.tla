----------------------------- MODULE Downloader -----------------------------
(***************************************************************************)
(* internal/downloader: Download fetches the checksum of an archive, skips *)
(* the download when the destination has that checksum, fetches the body   *)
(* to a temporary file, verifies it and renames it to the destination.     *)
(*                                                                         *)
(* All calls use the same destination and the same URL ("...-latest"): the *)
(* updates of an agent share photon-db.tar.bz2, the runs of the updater    *)
(* command share its download path.  The publisher replaces the body and   *)
(* the checksum file of the URL one after the other.                       *)
(*                                                                         *)
(* Contents are version numbers, and the checksum of version v is v:       *)
(* different contents have different checksums.                            *)
(***************************************************************************)
EXTENDS Naturals

CONSTANTS
    Callers,
    Damaged,        \* an incomplete or corrupted file
    Absent,
    Nil,            \* no checksum, or one that no file has
    MaxVersion,     \* bound on versions published
    MaxCrashes      \* bound on crashes of the process

ASSUME DownloaderConstants ==
    /\ MaxVersion \in Nat /\ MaxCrashes \in Nat
    /\ Damaged \notin Nat /\ Absent \notin Nat /\ Nil \notin Nat
    /\ Damaged \notin {Absent, Nil} /\ Absent # Nil

VARIABLES
    body, sum,      \* published: the version of the archive, of its checksum file
    dest,           \* the file at the destination
    pc,             \* where each call is
    md5sum,         \* the checksum each call has fetched
    response,       \* the version in each call's response
    temp,           \* each call's temporary file
    leaked,         \* temporary files of calls that a crash ended
    crashes,
    overlapped      \* history: calls during which another was in progress

published == <<body, sum>>
vars == <<body, sum, dest, pc, md5sum, response, temp, leaked, crashes, overlapped>>

Versions == 0..MaxVersion
Contents == Versions \cup {Damaged}

TypeOK ==
    /\ body \in Versions /\ sum \in 0..body
    /\ dest \in Contents \cup {Absent}
    /\ pc \in [Callers -> {"idle", "sum", "stat", "hash", "request", "copy", "verify",
                           "rename", "cleanup", "fail", "using"}]
    /\ md5sum \in [Callers -> Versions \cup {Nil}]
    /\ response \in [Callers -> Versions \cup {Nil}]
    /\ temp \in [Callers -> Contents \cup {Absent}]
    /\ leaked \subseteq Callers \X (1..MaxCrashes)
    /\ crashes \in 0..MaxCrashes
    /\ overlapped \subseteq Callers

Init ==
    /\ body = 0 /\ sum = 0
    /\ dest \in {0, Absent}
    /\ pc = [c \in Callers |-> "idle"]
    /\ md5sum = [c \in Callers |-> Nil]
    /\ response = [c \in Callers |-> Nil]
    /\ temp = [c \in Callers |-> Absent]
    /\ leaked = {} /\ crashes = 0
    /\ overlapped = {}

InProgress == {c \in Callers : pc[c] # "idle"}

Goes(c, from, to) ==
    /\ pc[c] = from
    /\ pc' = [pc EXCEPT ![c] = to]

OnlyCall == UNCHANGED <<published, leaked, crashes, overlapped>>

-----------------------------------------------------------------------------
(* The publisher.                                                          *)
PublishBody ==
    /\ body < MaxVersion
    /\ body' = body + 1
    /\ UNCHANGED <<sum, dest, pc, md5sum, response, temp, leaked, crashes, overlapped>>

PublishSum ==
    /\ sum # body
    /\ sum' = body
    /\ UNCHANGED <<body, dest, pc, md5sum, response, temp, leaked, crashes, overlapped>>

-----------------------------------------------------------------------------
Begin(c) ==
    /\ Goes(c, "idle", "sum")
    /\ overlapped' = IF InProgress = {} THEN {} ELSE overlapped \cup InProgress \cup {c}
    /\ UNCHANGED <<published, dest, md5sum, response, temp, leaked, crashes>>

(* Mutant: the first field is taken when it is the only one, or is none.   *)
GetMD5SumUnchecked(c) ==
    /\ Goes(c, "sum", "stat")
    /\ \E s \in {sum, Nil, Absent} : md5sum' = [md5sum EXCEPT ![c] = s]
    /\ OnlyCall /\ UNCHANGED <<dest, response, temp>>

(* getMD5Sum: the first of at least two fields of the body, whatever it is.*)
GetMD5Sum(c) ==
    /\ Goes(c, "sum", "stat")
    /\ \E s \in {sum, Nil} : md5sum' = [md5sum EXCEPT ![c] = s]
    /\ OnlyCall /\ UNCHANGED <<dest, response, temp>>

(* Before there is a temporary file an error just returns.                 *)
FailsEarly(c) ==
    /\ \E s \in {"sum", "hash", "request"} : Goes(c, s, "fail")
    /\ OnlyCall /\ UNCHANGED <<dest, md5sum, response, temp>>

(* os.Stat of the destination.                                             *)
FindExisting(c) ==
    /\ Goes(c, "stat", IF dest = Absent THEN "request" ELSE "hash")
    /\ OnlyCall /\ UNCHANGED <<dest, md5sum, response, temp>>

(* Mutant: any existing file will do.                                      *)
KeepAnyExisting(c) ==
    /\ dest # Absent
    /\ Goes(c, "hash", "using")
    /\ OnlyCall /\ UNCHANGED <<dest, md5sum, response, temp>>

(* md5sumFile of the destination, which may have been removed by now: that *)
(* is an error (FailsEarly).  A file with the checksum is not downloaded.  *)
CheckExisting(c) ==
    /\ dest # Absent
    /\ Goes(c, "hash", IF dest = md5sum[c] THEN "using" ELSE "request")
    /\ OnlyCall /\ UNCHANGED <<dest, md5sum, response, temp>>

(* The response is bound to what is published now, not when the checksum   *)
(* was; the temporary file is created empty.                               *)
Request(c) ==
    /\ Goes(c, "request", "copy")
    /\ response' = [response EXCEPT ![c] = body]
    /\ temp' = [temp EXCEPT ![c] = Damaged]
    /\ OnlyCall /\ UNCHANGED <<dest, md5sum>>

(* io.Copy and Close; what arrives may be damaged and no error seen.       *)
Copy(c) ==
    /\ Goes(c, "copy", "verify")
    /\ \E f \in {response[c], Damaged} : temp' = [temp EXCEPT ![c] = f]
    /\ OnlyCall /\ UNCHANGED <<dest, md5sum, response>>

(* Mutant: the file is renamed whatever its checksum.                      *)
VerifyNothing(c) ==
    /\ Goes(c, "verify", "rename")
    /\ OnlyCall /\ UNCHANGED <<dest, md5sum, response, temp>>

Verify(c) ==
    /\ temp[c] = md5sum[c]
    /\ Goes(c, "verify", "rename")
    /\ OnlyCall /\ UNCHANGED <<dest, md5sum, response, temp>>

(* A checksum mismatch, or an error of any step that has a temporary file. *)
Fails(c) ==
    /\ \E s \in {"copy", "verify", "rename"} : Goes(c, s, "cleanup")
    /\ OnlyCall /\ UNCHANGED <<dest, md5sum, response, temp>>

(* os.Rename; the deferred removal then finds nothing.                     *)
Rename(c) ==
    /\ Goes(c, "rename", "using")
    /\ dest' = temp[c]
    /\ temp' = [temp EXCEPT ![c] = Absent]
    /\ OnlyCall /\ UNCHANGED <<md5sum, response>>

(* Mutant: the temporary file is closed and not removed.                   *)
CleanupClosesOnly(c) ==
    /\ Goes(c, "cleanup", "fail")
    /\ OnlyCall /\ UNCHANGED <<dest, md5sum, response, temp>>

Cleanup(c) ==
    /\ Goes(c, "cleanup", "fail")
    /\ temp' = [temp EXCEPT ![c] = Absent]
    /\ OnlyCall /\ UNCHANGED <<dest, md5sum, response>>

(* A caller whose download failed leaves the destination alone; one whose  *)
(* download succeeded uses the file, then keeps it (the updater command)   *)
(* or removes it, whoever's it is by then (the agent's updates).           *)
End(c) ==
    /\ \/ Goes(c, "fail", "idle") /\ UNCHANGED dest
       \/ Goes(c, "using", "idle") /\ dest' \in {dest, Absent}
    /\ md5sum' = [md5sum EXCEPT ![c] = Nil]
    /\ response' = [response EXCEPT ![c] = Nil]
    /\ OnlyCall /\ UNCHANGED temp

(* The process ends with all its calls.  Nothing ever looks for their      *)
(* temporary files.                                                        *)
Crash ==
    /\ crashes < MaxCrashes
    /\ crashes' = crashes + 1
    /\ leaked' = leaked \cup ({c \in Callers : temp[c] # Absent} \X {crashes'})
    /\ pc' = [c \in Callers |-> "idle"]
    /\ md5sum' = [c \in Callers |-> Nil]
    /\ response' = [c \in Callers |-> Nil]
    /\ temp' = [c \in Callers |-> Absent]
    /\ UNCHANGED <<published, dest, overlapped>>

Call(c) ==
    \/ Begin(c) \/ GetMD5Sum(c) \/ FailsEarly(c) \/ FindExisting(c) \/ CheckExisting(c)
    \/ Request(c) \/ Copy(c) \/ Verify(c) \/ Fails(c) \/ Rename(c) \/ Cleanup(c) \/ End(c)

Next ==
    \/ PublishBody \/ PublishSum
    \/ \E c \in Callers : Call(c)
    \/ Crash

Spec == Init /\ [][Next]_vars

-----------------------------------------------------------------------------
(* Whatever is published or crashes meanwhile, the destination holds no    *)
(* file but one whose own checksum has been published: never a damaged one *)
(* or one paired with the checksum of another version.                     *)
DestIsPublished == dest # Absent => dest \in 0..sum

(* A call that no other overlaps and that succeeds, by a download or       *)
(* without one, leaves the version it asked for in place.                  *)
SuccessIsInPlace ==
    \A c \in Callers : pc[c] = "using" /\ c \notin overlapped => dest = md5sum[c]

(* A call that has ended has left no temporary file; only a crash does.    *)
NoTempLeft == \A c \in Callers : pc[c] \in {"idle", "using", "fail"} => temp[c] = Absent
=============================================================================
