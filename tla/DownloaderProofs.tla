-------------------------- MODULE DownloaderProofs --------------------------
(***************************************************************************)
(* For any number of callers, versions and crashes: the destination only   *)
(* ever holds published archives, a lone successful call has its version   *)
(* in place, and ended calls have no temporary file.                       *)
(***************************************************************************)
EXTENDS Downloader, TLAPS

(* Every step is one of these.                                             *)
LEMMA NextCases ==
    ASSUME Next, NEW P,
           PublishBody => P, PublishSum => P, Crash => P,
           ASSUME NEW c \in Callers, Begin(c) PROVE P,
           ASSUME NEW c \in Callers, GetMD5Sum(c) PROVE P,
           ASSUME NEW c \in Callers, FailsEarly(c) PROVE P,
           ASSUME NEW c \in Callers, FindExisting(c) PROVE P,
           ASSUME NEW c \in Callers, CheckExisting(c) PROVE P,
           ASSUME NEW c \in Callers, Request(c) PROVE P,
           ASSUME NEW c \in Callers, Copy(c) PROVE P,
           ASSUME NEW c \in Callers, Verify(c) PROVE P,
           ASSUME NEW c \in Callers, Fails(c) PROVE P,
           ASSUME NEW c \in Callers, Rename(c) PROVE P,
           ASSUME NEW c \in Callers, Cleanup(c) PROVE P,
           ASSUME NEW c \in Callers, End(c) PROVE P
    PROVE  P
BY DEF Next, Call

(* What a call knows at each point of its way: a response before the copy, *)
(* a temporary file from then on until it is renamed or removed, and, once *)
(* verified, one whose checksum is the published one the call has fetched. *)
CallInv ==
    \A c \in Callers :
        /\ pc[c] = "copy" => response[c] # Nil
        /\ pc[c] \in {"idle", "sum", "stat", "hash", "request", "using", "fail"} => temp[c] = Absent
        /\ pc[c] \in {"copy", "verify"} => temp[c] # Absent
        /\ pc[c] = "rename" => temp[c] = md5sum[c] /\ temp[c] # Absent
        /\ md5sum[c] \in (0..sum) \cup {Nil}

(* Two calls in progress at once have overlapped.                          *)
OverlapInv ==
    \A c, d \in InProgress : c # d => c \in overlapped

IInv == TypeOK /\ CallInv /\ OverlapInv /\ DestIsPublished /\ SuccessIsInPlace

LEMMA InitInv == Init => IInv
BY DownloaderConstants
   DEF Init, IInv, TypeOK, CallInv, OverlapInv, InProgress, DestIsPublished, SuccessIsInPlace,
       Versions, Contents

LEMMA NextInv == IInv /\ [Next]_vars => IInv'
<1> SUFFICES ASSUME IInv, [Next]_vars PROVE IInv'
    OBVIOUS
<1> USE DownloaderConstants
<1> DEFINE Rest == CallInv /\ OverlapInv /\ DestIsPublished /\ SuccessIsInPlace
<1>0. CASE UNCHANGED vars
    BY <1>0 DEF IInv, TypeOK, CallInv, OverlapInv, InProgress, DestIsPublished,
                SuccessIsInPlace, vars, published, Versions, Contents
<1>1. CASE Next
    <2>1. ASSUME PublishBody PROVE IInv'
        <3>1. TypeOK'
            BY <2>1 DEF PublishBody, IInv, TypeOK, published, Versions, Contents
        <3>2. CallInv'
            BY <2>1 DEF PublishBody, IInv, TypeOK, CallInv, published, Versions, Contents
        <3>3. OverlapInv'
            BY <2>1 DEF PublishBody, IInv, OverlapInv, InProgress
        <3>4. DestIsPublished' /\ SuccessIsInPlace'
            BY <2>1 DEF PublishBody, IInv, TypeOK, DestIsPublished, SuccessIsInPlace, published, Versions, Contents
        <3> QED BY <3>1, <3>2, <3>3, <3>4 DEF IInv
    <2>2. ASSUME PublishSum PROVE IInv'
        <3>1. TypeOK'
            BY <2>2 DEF PublishSum, IInv, TypeOK, published, Versions, Contents
        <3>2. CallInv'
            BY <2>2 DEF PublishSum, IInv, TypeOK, CallInv, published, Versions, Contents
        <3>3. OverlapInv'
            BY <2>2 DEF PublishSum, IInv, OverlapInv, InProgress
        <3>4. DestIsPublished' /\ SuccessIsInPlace'
            BY <2>2 DEF PublishSum, IInv, TypeOK, DestIsPublished, SuccessIsInPlace, published, Versions, Contents
        <3> QED BY <3>1, <3>2, <3>3, <3>4 DEF IInv
    <2>3. ASSUME Crash PROVE IInv'
        <3>1. TypeOK'
            BY <2>3 DEF Crash, IInv, TypeOK, published, Versions, Contents
        <3>2. CallInv'
            BY <2>3 DEF Crash, IInv, TypeOK, CallInv, published, Versions, Contents
        <3>3. OverlapInv'
            BY <2>3 DEF Crash, IInv, OverlapInv, InProgress
        <3>4. DestIsPublished' /\ SuccessIsInPlace'
            BY <2>3 DEF Crash, IInv, TypeOK, DestIsPublished, SuccessIsInPlace, published, Versions, Contents
        <3> QED BY <3>1, <3>2, <3>3, <3>4 DEF IInv
    <2>4. ASSUME NEW c \in Callers, Begin(c) PROVE IInv'
        <3>1. TypeOK'
            BY <2>4 DEF Begin, Goes, OnlyCall, IInv, TypeOK, CallInv, InProgress, published, Versions, Contents
        <3>2. CallInv'
            BY <2>4 DEF Begin, Goes, OnlyCall, IInv, TypeOK, CallInv, published, Versions, Contents
        <3>3. OverlapInv'
            BY <2>4 DEF Begin, Goes, OnlyCall, IInv, TypeOK, OverlapInv, InProgress
        <3>4. DestIsPublished'
            BY <2>4 DEF Begin, Goes, OnlyCall, IInv, TypeOK, CallInv, DestIsPublished, published, Versions, Contents
        <3>5. SuccessIsInPlace'
            BY <2>4 DEF Begin, Goes, OnlyCall, IInv, TypeOK, CallInv, OverlapInv, InProgress, SuccessIsInPlace, published
        <3> QED BY <3>1, <3>2, <3>3, <3>4, <3>5 DEF IInv
    <2>5. ASSUME NEW c \in Callers, GetMD5Sum(c) PROVE IInv'
        <3>1. TypeOK'
            BY <2>5 DEF GetMD5Sum, Goes, OnlyCall, IInv, TypeOK, CallInv, InProgress, published, Versions, Contents
        <3>2. CallInv'
            BY <2>5 DEF GetMD5Sum, Goes, OnlyCall, IInv, TypeOK, CallInv, published, Versions, Contents
        <3>3. OverlapInv'
            BY <2>5 DEF GetMD5Sum, Goes, OnlyCall, IInv, TypeOK, OverlapInv, InProgress
        <3>4. DestIsPublished'
            BY <2>5 DEF GetMD5Sum, Goes, OnlyCall, IInv, TypeOK, CallInv, DestIsPublished, published, Versions, Contents
        <3>5. SuccessIsInPlace'
            BY <2>5 DEF GetMD5Sum, Goes, OnlyCall, IInv, TypeOK, CallInv, OverlapInv, InProgress, SuccessIsInPlace, published
        <3> QED BY <3>1, <3>2, <3>3, <3>4, <3>5 DEF IInv
    <2>6. ASSUME NEW c \in Callers, FailsEarly(c) PROVE IInv'
        <3>1. TypeOK'
            BY <2>6 DEF FailsEarly, Goes, OnlyCall, IInv, TypeOK, CallInv, InProgress, published, Versions, Contents
        <3>2. CallInv'
            BY <2>6 DEF FailsEarly, Goes, OnlyCall, IInv, TypeOK, CallInv, published, Versions, Contents
        <3>3. OverlapInv'
            BY <2>6 DEF FailsEarly, Goes, OnlyCall, IInv, TypeOK, OverlapInv, InProgress
        <3>4. DestIsPublished'
            BY <2>6 DEF FailsEarly, Goes, OnlyCall, IInv, TypeOK, CallInv, DestIsPublished, published, Versions, Contents
        <3>5. SuccessIsInPlace'
            BY <2>6 DEF FailsEarly, Goes, OnlyCall, IInv, TypeOK, CallInv, OverlapInv, InProgress, SuccessIsInPlace, published
        <3> QED BY <3>1, <3>2, <3>3, <3>4, <3>5 DEF IInv
    <2>7. ASSUME NEW c \in Callers, FindExisting(c) PROVE IInv'
        <3>1. TypeOK'
            BY <2>7 DEF FindExisting, Goes, OnlyCall, IInv, TypeOK, CallInv, InProgress, published, Versions, Contents
        <3>2. CallInv'
            BY <2>7 DEF FindExisting, Goes, OnlyCall, IInv, TypeOK, CallInv, published, Versions, Contents
        <3>3. OverlapInv'
            BY <2>7 DEF FindExisting, Goes, OnlyCall, IInv, TypeOK, OverlapInv, InProgress
        <3>4. DestIsPublished'
            BY <2>7 DEF FindExisting, Goes, OnlyCall, IInv, TypeOK, CallInv, DestIsPublished, published, Versions, Contents
        <3>5. SuccessIsInPlace'
            BY <2>7 DEF FindExisting, Goes, OnlyCall, IInv, TypeOK, CallInv, OverlapInv, InProgress, SuccessIsInPlace, published
        <3> QED BY <3>1, <3>2, <3>3, <3>4, <3>5 DEF IInv
    <2>8. ASSUME NEW c \in Callers, CheckExisting(c) PROVE IInv'
        <3>1. TypeOK'
            BY <2>8 DEF CheckExisting, Goes, OnlyCall, IInv, TypeOK, CallInv, InProgress, published, Versions, Contents
        <3>2. CallInv'
            BY <2>8 DEF CheckExisting, Goes, OnlyCall, IInv, TypeOK, CallInv, published, Versions, Contents
        <3>3. OverlapInv'
            BY <2>8 DEF CheckExisting, Goes, OnlyCall, IInv, TypeOK, OverlapInv, InProgress
        <3>4. DestIsPublished'
            BY <2>8 DEF CheckExisting, Goes, OnlyCall, IInv, TypeOK, CallInv, DestIsPublished, published, Versions, Contents
        <3>5. SuccessIsInPlace'
            BY <2>8 DEF CheckExisting, Goes, OnlyCall, IInv, TypeOK, CallInv, OverlapInv, InProgress, SuccessIsInPlace, published
        <3> QED BY <3>1, <3>2, <3>3, <3>4, <3>5 DEF IInv
    <2>9. ASSUME NEW c \in Callers, Request(c) PROVE IInv'
        <3>1. TypeOK'
            BY <2>9 DEF Request, Goes, OnlyCall, IInv, TypeOK, CallInv, InProgress, published, Versions, Contents
        <3>2. CallInv'
            BY <2>9 DEF Request, Goes, OnlyCall, IInv, TypeOK, CallInv, published, Versions, Contents
        <3>3. OverlapInv'
            BY <2>9 DEF Request, Goes, OnlyCall, IInv, TypeOK, OverlapInv, InProgress
        <3>4. DestIsPublished'
            BY <2>9 DEF Request, Goes, OnlyCall, IInv, TypeOK, CallInv, DestIsPublished, published, Versions, Contents
        <3>5. SuccessIsInPlace'
            BY <2>9 DEF Request, Goes, OnlyCall, IInv, TypeOK, CallInv, OverlapInv, InProgress, SuccessIsInPlace, published
        <3> QED BY <3>1, <3>2, <3>3, <3>4, <3>5 DEF IInv
    <2>10. ASSUME NEW c \in Callers, Copy(c) PROVE IInv'
        <3>1. TypeOK'
            BY <2>10 DEF Copy, Goes, OnlyCall, IInv, TypeOK, CallInv, InProgress, published, Versions, Contents
        <3>2. CallInv'
            BY <2>10 DEF Copy, Goes, OnlyCall, IInv, TypeOK, CallInv, published, Versions, Contents
        <3>3. OverlapInv'
            BY <2>10 DEF Copy, Goes, OnlyCall, IInv, TypeOK, OverlapInv, InProgress
        <3>4. DestIsPublished'
            BY <2>10 DEF Copy, Goes, OnlyCall, IInv, TypeOK, CallInv, DestIsPublished, published, Versions, Contents
        <3>5. SuccessIsInPlace'
            BY <2>10 DEF Copy, Goes, OnlyCall, IInv, TypeOK, CallInv, OverlapInv, InProgress, SuccessIsInPlace, published
        <3> QED BY <3>1, <3>2, <3>3, <3>4, <3>5 DEF IInv
    <2>11. ASSUME NEW c \in Callers, Verify(c) PROVE IInv'
        <3>1. TypeOK'
            BY <2>11 DEF Verify, Goes, OnlyCall, IInv, TypeOK, CallInv, InProgress, published, Versions, Contents
        <3>2. CallInv'
            BY <2>11 DEF Verify, Goes, OnlyCall, IInv, TypeOK, CallInv, published, Versions, Contents
        <3>3. OverlapInv'
            BY <2>11 DEF Verify, Goes, OnlyCall, IInv, TypeOK, OverlapInv, InProgress
        <3>4. DestIsPublished'
            BY <2>11 DEF Verify, Goes, OnlyCall, IInv, TypeOK, CallInv, DestIsPublished, published, Versions, Contents
        <3>5. SuccessIsInPlace'
            BY <2>11 DEF Verify, Goes, OnlyCall, IInv, TypeOK, CallInv, OverlapInv, InProgress, SuccessIsInPlace, published
        <3> QED BY <3>1, <3>2, <3>3, <3>4, <3>5 DEF IInv
    <2>12. ASSUME NEW c \in Callers, Fails(c) PROVE IInv'
        <3>1. TypeOK'
            BY <2>12 DEF Fails, Goes, OnlyCall, IInv, TypeOK, CallInv, InProgress, published, Versions, Contents
        <3>2. CallInv'
            BY <2>12 DEF Fails, Goes, OnlyCall, IInv, TypeOK, CallInv, published, Versions, Contents
        <3>3. OverlapInv'
            BY <2>12 DEF Fails, Goes, OnlyCall, IInv, TypeOK, OverlapInv, InProgress
        <3>4. DestIsPublished'
            BY <2>12 DEF Fails, Goes, OnlyCall, IInv, TypeOK, CallInv, DestIsPublished, published, Versions, Contents
        <3>5. SuccessIsInPlace'
            BY <2>12 DEF Fails, Goes, OnlyCall, IInv, TypeOK, CallInv, OverlapInv, InProgress, SuccessIsInPlace, published
        <3> QED BY <3>1, <3>2, <3>3, <3>4, <3>5 DEF IInv
    <2>13. ASSUME NEW c \in Callers, Rename(c) PROVE IInv'
        <3>1. TypeOK'
            BY <2>13 DEF Rename, Goes, OnlyCall, IInv, TypeOK, CallInv, InProgress, published, Versions, Contents
        <3>2. CallInv'
            BY <2>13 DEF Rename, Goes, OnlyCall, IInv, TypeOK, CallInv, published, Versions, Contents
        <3>3. OverlapInv'
            BY <2>13 DEF Rename, Goes, OnlyCall, IInv, TypeOK, OverlapInv, InProgress
        <3>4. DestIsPublished'
            BY <2>13 DEF Rename, Goes, OnlyCall, IInv, TypeOK, CallInv, DestIsPublished, published, Versions, Contents
        <3>5. SuccessIsInPlace'
            BY <2>13 DEF Rename, Goes, OnlyCall, IInv, TypeOK, CallInv, OverlapInv, InProgress, SuccessIsInPlace, published
        <3> QED BY <3>1, <3>2, <3>3, <3>4, <3>5 DEF IInv
    <2>14. ASSUME NEW c \in Callers, Cleanup(c) PROVE IInv'
        <3>1. TypeOK'
            BY <2>14 DEF Cleanup, Goes, OnlyCall, IInv, TypeOK, CallInv, InProgress, published, Versions, Contents
        <3>2. CallInv'
            BY <2>14 DEF Cleanup, Goes, OnlyCall, IInv, TypeOK, CallInv, published, Versions, Contents
        <3>3. OverlapInv'
            BY <2>14 DEF Cleanup, Goes, OnlyCall, IInv, TypeOK, OverlapInv, InProgress
        <3>4. DestIsPublished'
            BY <2>14 DEF Cleanup, Goes, OnlyCall, IInv, TypeOK, CallInv, DestIsPublished, published, Versions, Contents
        <3>5. SuccessIsInPlace'
            BY <2>14 DEF Cleanup, Goes, OnlyCall, IInv, TypeOK, CallInv, OverlapInv, InProgress, SuccessIsInPlace, published
        <3> QED BY <3>1, <3>2, <3>3, <3>4, <3>5 DEF IInv
    <2>15. ASSUME NEW c \in Callers, End(c) PROVE IInv'
        <3>1. TypeOK'
            BY <2>15 DEF End, Goes, OnlyCall, IInv, TypeOK, CallInv, InProgress, published, Versions, Contents
        <3>2. CallInv'
            BY <2>15 DEF End, Goes, OnlyCall, IInv, TypeOK, CallInv, published, Versions, Contents
        <3>3. OverlapInv'
            BY <2>15 DEF End, Goes, OnlyCall, IInv, TypeOK, OverlapInv, InProgress
        <3>4. DestIsPublished'
            BY <2>15 DEF End, Goes, OnlyCall, IInv, TypeOK, CallInv, DestIsPublished, published, Versions, Contents
        <3>5. SuccessIsInPlace'
            BY <2>15 DEF End, Goes, OnlyCall, IInv, TypeOK, CallInv, OverlapInv, InProgress, SuccessIsInPlace, published
        <3> QED BY <3>1, <3>2, <3>3, <3>4, <3>5 DEF IInv
    <2> QED BY <1>1, <2>1, <2>2, <2>3, <2>4, <2>5, <2>6, <2>7, <2>8, <2>9, <2>10, <2>11, <2>12, <2>13, <2>14, <2>15, NextCases
<1> QED BY <1>0, <1>1

LEMMA Inductive == Spec => []IInv
BY InitInv, NextInv, PTL DEF Spec

(* The variables keep their types, for every number of callers.            *)
THEOREM TypeCorrect == Spec => []TypeOK
BY Inductive, PTL DEF IInv

(* Whatever is published while downloads run and crash, the destination    *)
(* only holds archives whose own checksum was published.                   *)
THEOREM DestVerified == Spec => []DestIsPublished
BY Inductive, PTL DEF IInv

(* A successful call that no other overlapped has its version in place.    *)
THEOREM LoneSuccess == Spec => []SuccessIsInPlace
BY Inductive, PTL DEF IInv

(* No call that has ended leaves a temporary file.                         *)
THEOREM TempRemoved == Spec => []NoTempLeft
<1>1. IInv => NoTempLeft
    BY DEF IInv, CallInv, NoTempLeft
<1> QED BY <1>1, Inductive, PTL
=============================================================================
