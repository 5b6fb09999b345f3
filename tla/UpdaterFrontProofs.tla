-------------------------- MODULE UpdaterFrontProofs --------------------------
(***************************************************************************)
(* For any number of requests, archives and releases, and any reset and    *)
(* restart: which archive a download installs, that it is later than what  *)
(* photon served, and that nobody is refused before photon has told a date.*)
(***************************************************************************)
EXTENDS UpdaterFront, TLAPS

(* Every step is one of these.                                             *)
LEMMA NextCases ==
    ASSUME Next, NEW Q,
           Publish => Q, PhotonDies => Q, AgentRestarts => Q,
           ASSUME NEW r \in Requests, Post(r) PROVE Q,
           ASSUME NEW r \in Requests, Reset(r) PROVE Q,
           ASSUME NEW r \in Requests, Ask(r) PROVE Q,
           ASSUME NEW r \in Requests, StoreAnswer(r) PROVE Q,
           ASSUME NEW r \in Requests, Compare(r) PROVE Q,
           ASSUME NEW r \in Requests, GetLastModifiedFails(r) PROVE Q,
           ASSUME NEW r \in Requests, Fetch(r) PROVE Q,
           ASSUME NEW r \in Requests, StopPhoton(r) PROVE Q,
           ASSUME NEW r \in Requests, ClaimRefused(r) PROVE Q,
           ASSUME NEW r \in Requests, Claim(r) PROVE Q,
           ASSUME NEW r \in Requests, UpdateFails(r) PROVE Q,
           ASSUME NEW r \in Requests, Install(r) PROVE Q,
           ASSUME NEW r \in Requests, StartPhoton(r) PROVE Q
    PROVE  Q
BY DEF Next, Step

Typed ==
    /\ strategy \in {"sequential", "parallel"}
    /\ published \in [Names -> Releases]
    /\ index \in Releases \cup {Blank}
    /\ serving \in Releases \cup {Blank, Off}
    /\ state \in {"unknown", "migrated", "migrating"}
    /\ cachedModTime \in Dates
    /\ pc \in [Requests -> Steps]
    /\ options \in [Requests -> Options]
    /\ importTime \in [Requests -> Dates]
    /\ release \in [Requests -> Releases \cup {Blank}]
    /\ shown \in [Requests -> Releases \cup {Off}]
    /\ resets \in 0..MaxResets /\ restarts \in 0..MaxRestarts

HeardTyped == heard \in BOOLEAN

LEMMA ReleaseFacts ==
    ASSUME NEW x \in Releases
    PROVE  /\ x.name \in Names /\ x.day \in Nat /\ x.date \in Nat
           /\ x.day <= x.date + Slack
           /\ x.date \in Dates /\ x.date # ZeroTime
           /\ x # Off /\ x # Blank
BY ReleasesAssumption, FrontConstants DEF Dates, ZeroTime

LEMMA OptionFacts ==
    ASSUME NEW o \in Options
    PROVE  /\ WantedArchive(o) \in Names /\ GivenArchive(o) \in Names
BY FrontConstants DEF Options, WantedArchive, GivenArchive

LEMMA TypedInit == Init => Typed /\ HeardTyped
<1>1. Init => HeardTyped
    BY Zenon DEF Init, HeardTyped
<1>2. NoOptions \in Options
    BY DEF NoOptions, Options
<1>3. Init => Typed
    BY <1>2, FrontConstants DEF Init, Typed, Dates, Steps
<1> QED
    BY <1>1, <1>3

LEMMA HeardStep == HeardTyped /\ [Next]_vars => HeardTyped'
<1> SUFFICES ASSUME HeardTyped, [Next]_vars PROVE HeardTyped'
    OBVIOUS
<1> USE DEF HeardTyped
<1>1. CASE UNCHANGED vars
    BY <1>1, Zenon DEF vars
<1>2. CASE Next
    BY <1>2, NextCases, Zenon
       DEF Publish, PhotonDies, AgentRestarts, Post, Reset, Ask, StoreAnswer, Compare,
           GetLastModifiedFails, Fetch, StopPhoton, ClaimRefused, Claim, UpdateFails, Install,
           StartPhoton
<1> QED
    BY <1>1, <1>2

LEMMA TypedStep == Typed /\ [Next]_vars => Typed'
<1> SUFFICES ASSUME Typed, [Next]_vars PROVE Typed'
    OBVIOUS
<1> USE FrontConstants
<1> USE DEF Typed, Goes, indexVars, migratorVars, callVars, bounds
<1>1. CASE UNCHANGED vars
    BY <1>1 DEF vars
<1>2. CASE Next
    <2>1. Publish => Typed'
        BY DEF Publish
    <2>2. PhotonDies => Typed'
        BY DEF PhotonDies
    <2>3. AgentRestarts => Typed'
        BY DEF AgentRestarts, Steps, Dates
    <2>4. ASSUME NEW r \in Requests, Post(r) PROVE Typed'
        BY <2>4 DEF Post, Steps, FirstStep
    <2>5. ASSUME NEW r \in Requests, Reset(r) PROVE Typed'
        BY <2>5 DEF Reset, Steps, FirstStep
    <2>6. ASSUME NEW r \in Requests, Ask(r) PROVE Typed'
        BY <2>6, ReleaseFacts DEF Ask, Steps, Dates
    <2>7. ASSUME NEW r \in Requests, StoreAnswer(r) PROVE Typed'
        BY <2>7 DEF StoreAnswer, Steps
    <2>8. ASSUME NEW r \in Requests, Compare(r) PROVE Typed'
        BY <2>8 DEF Compare, Steps, FirstStep
    <2>9. ASSUME NEW r \in Requests, GetLastModifiedFails(r) PROVE Typed'
        BY <2>9 DEF GetLastModifiedFails, Steps
    <2>10. ASSUME NEW r \in Requests, Fetch(r) PROVE Typed'
        BY <2>10, OptionFacts DEF Fetch, Steps
    <2>11. ASSUME NEW r \in Requests, StopPhoton(r) PROVE Typed'
        BY <2>11 DEF StopPhoton, Steps
    <2>12. ASSUME NEW r \in Requests, ClaimRefused(r) PROVE Typed'
        BY <2>12 DEF ClaimRefused, Steps
    <2>13. ASSUME NEW r \in Requests, Claim(r) PROVE Typed'
        BY <2>13 DEF Claim, Steps
    <2>14. ASSUME NEW r \in Requests, UpdateFails(r) PROVE Typed'
        BY <2>14 DEF UpdateFails, Steps
    <2>15. ASSUME NEW r \in Requests, Install(r) PROVE Typed'
        BY <2>15 DEF Install, Steps
    <2>16. ASSUME NEW r \in Requests, StartPhoton(r) PROVE Typed'
        BY <2>16 DEF StartPhoton, Steps
    <2> QED
        BY <1>2, <2>1, <2>2, <2>3, <2>4, <2>5, <2>6, <2>7, <2>8, <2>9, <2>10, <2>11, <2>12,
           <2>13, <2>14, <2>15, <2>16, NextCases
<1> QED
    BY <1>1, <1>2

(* Type correctness of the front: whatever is published, reset, restarted  *)
(* or fails, a date in the cache is that of a release or none, and a       *)
(* request holds at most the release of one archive.                       *)
THEOREM TypeCorrect == Spec => []TypeOK
<1>1. Typed /\ HeardTyped => TypeOK
    BY Zenon DEF Typed, HeardTyped, TypeOK
<1> QED
    BY <1>1, TypedInit, TypedStep, HeardStep, PTL DEF Spec

-----------------------------------------------------------------------------
(* The comparison: the zero time is older than anything by more than a     *)
(* Duration can say, and what is later than a release's import date by     *)
(* more than the slack is later than the release itself.                   *)
LEMMA CompareFacts ==
    ASSUME NEW lm \in Nat
    PROVE  /\ ~ UpToDate(lm, ZeroTime)
           /\ \A t \in Nat : ~ UpToDate(lm, t) => lm > t + Slack
BY DEF UpToDate, Sub, MaxDuration, Slack, ZeroTime

(* A date that is not zero has come from photon, since the agent is up.    *)
HeardInv ==
    /\ cachedModTime # ZeroTime => heard
    /\ \A r \in Requests :
          /\ pc[r] \in {"told", "compare"} /\ importTime[r] # ZeroTime => heard
          /\ pc[r] = "refused" => heard

LEMMA HeardInvStep == Typed /\ HeardInv /\ [Next]_vars => HeardInv'
<1> SUFFICES ASSUME Typed /\ HeardInv, [Next]_vars PROVE HeardInv'
    OBVIOUS
<1> USE DEF Typed, HeardInv, Goes, indexVars, migratorVars, callVars, bounds
<1>1. CASE UNCHANGED vars
    BY <1>1 DEF vars
<1>2. CASE Next
    <2>1. Publish => HeardInv'
        BY DEF Publish
    <2>2. PhotonDies => HeardInv'
        BY DEF PhotonDies
    <2>3. AgentRestarts => HeardInv'
        BY DEF AgentRestarts
    <2>4. ASSUME NEW r \in Requests, Post(r) PROVE HeardInv'
        BY <2>4 DEF Post, FirstStep
    <2>5. ASSUME NEW r \in Requests, Reset(r) PROVE HeardInv'
        BY <2>5 DEF Reset, FirstStep
    <2>6. ASSUME NEW r \in Requests, Ask(r) PROVE HeardInv'
        BY <2>6, ReleaseFacts DEF Ask
    <2>7. ASSUME NEW r \in Requests, StoreAnswer(r) PROVE HeardInv'
        BY <2>7 DEF StoreAnswer
    <2>8. ASSUME NEW r \in Requests, Compare(r) PROVE HeardInv'
        <3>1. published[GivenArchive(options[r])].day \in Nat
            BY OptionFacts, ReleaseFacts
        <3>2. pc[r] = "compare" /\ (pc' = [pc EXCEPT ![r] = "refused"] => importTime[r] # ZeroTime)
            BY <2>8, <3>1, CompareFacts DEF Compare, FirstStep
        <3>3. /\ pc' = [pc EXCEPT ![r] = "refused"] \/ pc' = [pc EXCEPT ![r] = FirstStep(options[r])]
              /\ UNCHANGED <<cachedModTime, importTime, heard>>
            BY <2>8 DEF Compare
        <3> QED
            BY <3>2, <3>3 DEF FirstStep
    <2>9. ASSUME NEW r \in Requests, GetLastModifiedFails(r) PROVE HeardInv'
        BY <2>9 DEF GetLastModifiedFails
    <2>10. ASSUME NEW r \in Requests, Fetch(r) PROVE HeardInv'
        BY <2>10, OptionFacts DEF Fetch
    <2>11. ASSUME NEW r \in Requests, StopPhoton(r) PROVE HeardInv'
        BY <2>11 DEF StopPhoton
    <2>12. ASSUME NEW r \in Requests, ClaimRefused(r) PROVE HeardInv'
        BY <2>12 DEF ClaimRefused
    <2>13. ASSUME NEW r \in Requests, Claim(r) PROVE HeardInv'
        BY <2>13 DEF Claim
    <2>14. ASSUME NEW r \in Requests, UpdateFails(r) PROVE HeardInv'
        BY <2>14 DEF UpdateFails
    <2>15. ASSUME NEW r \in Requests, Install(r) PROVE HeardInv'
        BY <2>15 DEF Install
    <2>16. ASSUME NEW r \in Requests, StartPhoton(r) PROVE HeardInv'
        BY <2>16 DEF StartPhoton
    <2> QED
        BY <1>2, <2>1, <2>2, <2>3, <2>4, <2>5, <2>6, <2>7, <2>8, <2>9, <2>10, <2>11, <2>12,
           <2>13, <2>14, <2>15, <2>16, NextCases
<1> QED
    BY <1>1, <1>2

(* Nobody is told that the database is up to date by an agent to which     *)
(* photon has never told a date.                                           *)
THEOREM RefusedByADate == Spec => []RefusalNeedsDate
<1>1. Init => HeardInv
    BY DEF Init, HeardInv
<1>2. HeardInv => RefusalNeedsDate
    BY DEF HeardInv, RefusalNeedsDate
<1> QED
    BY <1>1, <1>2, TypedInit, TypedStep, HeardInvStep, PTL DEF Spec

-----------------------------------------------------------------------------
(* A name stands for a release of that name.                               *)
NameInv == \A n \in Names : published[n].name = n

LEMMA NameInvStep == Typed /\ NameInv /\ [Next]_vars => NameInv'
<1> SUFFICES ASSUME Typed, NameInv, [Next]_vars PROVE NameInv'
    OBVIOUS
<1>1. Publish => NameInv'
    BY ReleaseFacts DEF Typed, NameInv, Publish
<1>2. ~ Publish => UNCHANGED published
    BY NextCases DEF Next, Step, PhotonDies, AgentRestarts, Post, Reset, Ask, StoreAnswer,
       Compare, GetLastModifiedFails, Fetch, StopPhoton, ClaimRefused, Claim, UpdateFails,
       Install, StartPhoton, vars, indexVars
<1> QED
    BY <1>1, <1>2 DEF NameInv

(* A download has fetched its archive: a parallel one before it stops      *)
(* photon, a sequential one after its claim of the state.                  *)
Fetched(r) ==
    /\ options[r].kind = "download"
    /\ \/ pc[r] \in {"install", "start"}
       \/ strategy = "parallel" /\ pc[r] \in {"stop", "claim"}

(* It is to be fetched, and the comparison is behind it.                   *)
ToFetch(r) ==
    /\ options[r].kind = "download"
    /\ \/ pc[r] = "fetch"
       \/ strategy = "sequential" /\ pc[r] \in {"stop", "claim"}

Given(r) == published[GivenArchive(options[r])]

FetchedInv ==
    \A r \in Requests :
        Fetched(r) => release[r] \in Releases
                      /\ release[r].name = GivenArchive(options[r])

LEMMA FetchedInvStep == Typed /\ NameInv /\ FetchedInv /\ [Next]_vars => FetchedInv'
<1> SUFFICES ASSUME Typed /\ NameInv /\ FetchedInv, [Next]_vars PROVE FetchedInv'
    OBVIOUS
<1> USE DEF Typed, FetchedInv, Fetched, Goes, indexVars, migratorVars, callVars, bounds
<1>1. CASE UNCHANGED vars
    BY <1>1 DEF vars
<1>2. CASE Next
    <2>1. Publish => FetchedInv'
        BY DEF Publish
    <2>2. PhotonDies => FetchedInv'
        BY DEF PhotonDies
    <2>3. AgentRestarts => FetchedInv'
        BY DEF AgentRestarts
    <2>4. ASSUME NEW r \in Requests, Post(r) PROVE FetchedInv'
        BY <2>4 DEF Post, FirstStep
    <2>5. ASSUME NEW r \in Requests, Reset(r) PROVE FetchedInv'
        BY <2>5 DEF Reset, FirstStep
    <2>6. ASSUME NEW r \in Requests, Ask(r) PROVE FetchedInv'
        BY <2>6, ReleaseFacts DEF Ask
    <2>7. ASSUME NEW r \in Requests, StoreAnswer(r) PROVE FetchedInv'
        BY <2>7, ReleaseFacts DEF StoreAnswer
    <2>8. ASSUME NEW r \in Requests, Compare(r) PROVE FetchedInv'
        BY <2>8, CompareFacts DEF Compare, FirstStep
    <2>9. ASSUME NEW r \in Requests, GetLastModifiedFails(r) PROVE FetchedInv'
        BY <2>9 DEF GetLastModifiedFails
    <2>10. ASSUME NEW r \in Requests, Fetch(r) PROVE FetchedInv'
        <3>1. Given(r) \in Releases /\ Given(r).name = GivenArchive(options[r])
            BY OptionFacts DEF Given, NameInv
        <3>2. release' = [release EXCEPT ![r] = Given(r)]
            BY <2>10 DEF Fetch, Given
        <3> QED
            BY <2>10, <3>1, <3>2 DEF Fetch
    <2>11. ASSUME NEW r \in Requests, StopPhoton(r) PROVE FetchedInv'
        BY <2>11 DEF StopPhoton
    <2>12. ASSUME NEW r \in Requests, ClaimRefused(r) PROVE FetchedInv'
        BY <2>12 DEF ClaimRefused
    <2>13. ASSUME NEW r \in Requests, Claim(r) PROVE FetchedInv'
        BY <2>13 DEF Claim
    <2>14. ASSUME NEW r \in Requests, UpdateFails(r) PROVE FetchedInv'
        BY <2>14 DEF UpdateFails
    <2>15. ASSUME NEW r \in Requests, Install(r) PROVE FetchedInv'
        BY <2>15 DEF Install
    <2>16. ASSUME NEW r \in Requests, StartPhoton(r) PROVE FetchedInv'
        BY <2>16 DEF StartPhoton
    <2> QED
        BY <1>2, <2>1, <2>2, <2>3, <2>4, <2>5, <2>6, <2>7, <2>8, <2>9, <2>10, <2>11, <2>12,
           <2>13, <2>14, <2>15, <2>16, NextCases
<1> QED
    BY <1>1, <1>2

(* A download that is not forced installs the archive it was asked for.    *)
THEOREM UnforcedGetsItsArchive == Spec => []UnforcedDownloadsWhatIsAsked
<1>1. Init => NameInv /\ FetchedInv
    BY DEF Init, NameInv, FetchedInv, Fetched
<1>2. FetchedInv => UnforcedDownloadsWhatIsAsked
    BY DEF FetchedInv, Fetched, UnforcedDownloadsWhatIsAsked, Installing, IsAskedFor, GivenArchive
<1> QED
    BY <1>1, <1>2, TypedInit, TypedStep, NameInvStep, FetchedInvStep, PTL DEF Spec

(* What a download that is not forced was shown is in its date until it    *)
(* compares, and older than what it is to fetch and has fetched after it.  *)
Compared(r) == ~ options[r].force /\ shown[r] # Off

LaterInv ==
    \A r \in Requests :
        /\ pc[r] \in {"new", "reset", "ask"} => shown[r] = Off
        /\ pc[r] \in {"told", "compare"} /\ shown[r] # Off => importTime[r] = shown[r].date
        /\ Compared(r) /\ ToFetch(r) => Given(r).day > shown[r].day
        /\ Compared(r) /\ Fetched(r) => release[r].day > shown[r].day

LEMMA LaterInvStep == Typed /\ NameInv /\ FetchedInv /\ LaterInv /\ [Next]_vars => LaterInv'
<1> SUFFICES ASSUME Typed /\ NameInv /\ FetchedInv /\ LaterInv, [Next]_vars PROVE LaterInv'
    OBVIOUS
<1> USE DEF Typed, LaterInv, Compared, Fetched, ToFetch, Given, Goes, indexVars, migratorVars, callVars, bounds
<1>1. CASE UNCHANGED vars
    BY <1>1 DEF vars
<1>2. CASE Next
    <2>1. Publish => LaterInv'
        <3> SUFFICES ASSUME Publish PROVE LaterInv'
            OBVIOUS
        <3>1. /\ \A n \in Names : published'[n].day >= published[n].day
              /\ \A n \in Names : published'[n].day \in Nat /\ published[n].day \in Nat
              /\ published' \in [Names -> Releases]
            BY ReleaseFacts DEF Publish
        <3>2. \A r \in Requests : GivenArchive(options[r]) \in Names
            BY OptionFacts
        <3>3. \A r \in Requests : shown[r] # Off => shown[r].day \in Nat
            BY ReleaseFacts
        <3>4. UNCHANGED <<strategy, pc, options, importTime, release, shown>>
            BY DEF Publish
        <3>5. \A r \in Requests : GivenArchive(options[r])' = GivenArchive(options[r])
            BY <3>4
        <3> QED
            BY <3>1, <3>2, <3>3, <3>4, <3>5
    <2>2. PhotonDies => LaterInv'
        BY DEF PhotonDies
    <2>3. AgentRestarts => LaterInv'
        BY DEF AgentRestarts
    <2>4. ASSUME NEW r \in Requests, Post(r) PROVE LaterInv'
        BY <2>4 DEF Post, FirstStep
    <2>5. ASSUME NEW r \in Requests, Reset(r) PROVE LaterInv'
        BY <2>5 DEF Reset, FirstStep
    <2>6. ASSUME NEW r \in Requests, Ask(r) PROVE LaterInv'
        BY <2>6, ReleaseFacts DEF Ask
    <2>7. ASSUME NEW r \in Requests, StoreAnswer(r) PROVE LaterInv'
        BY <2>7, ReleaseFacts DEF StoreAnswer
    <2>8. ASSUME NEW r \in Requests, Compare(r) PROVE LaterInv'
        <3>1. Given(r) \in Releases /\ Given(r).day \in Nat
            BY OptionFacts, ReleaseFacts
        <3>2. CASE pc' = [pc EXCEPT ![r] = "refused"]
            BY <2>8, <3>2 DEF Compare
        <3>3. CASE /\ pc' = [pc EXCEPT ![r] = FirstStep(options[r])]
                   /\ ~ UpToDate(Given(r).day, importTime[r])
            <4>1. pc[r] = "compare" /\ UNCHANGED <<published, strategy, options, release, shown>>
                BY <2>8 DEF Compare
            <4>2. shown[r] # Off => Given(r).day > shown[r].day
                <5> SUFFICES ASSUME shown[r] # Off PROVE Given(r).day > shown[r].day
                    OBVIOUS
                <5>1. shown[r] \in Releases /\ importTime[r] = shown[r].date
                    BY <4>1
                <5>2. shown[r].day \in Nat /\ shown[r].date \in Nat
                      /\ shown[r].day <= shown[r].date + Slack
                    BY <5>1, ReleaseFacts
                <5>3. Given(r).day > shown[r].date + Slack
                    BY <3>1, <3>3, <5>1, <5>2, CompareFacts
                <5> QED
                    BY <3>1, <5>2, <5>3 DEF Slack
            <4>3. UNCHANGED importTime
                BY <2>8 DEF Compare
            <4>4. \A q \in Requests : Given(q)' = Given(q)
                BY <4>1
            <4> QED
                BY <3>3, <4>1, <4>2, <4>3, <4>4 DEF FirstStep
        <3> QED
            BY <2>8, <3>2, <3>3 DEF Compare
    <2>9. ASSUME NEW r \in Requests, GetLastModifiedFails(r) PROVE LaterInv'
        BY <2>9 DEF GetLastModifiedFails
    <2>10. ASSUME NEW r \in Requests, Fetch(r) PROVE LaterInv'
        BY <2>10, OptionFacts DEF Fetch
    <2>11. ASSUME NEW r \in Requests, StopPhoton(r) PROVE LaterInv'
        BY <2>11 DEF StopPhoton
    <2>12. ASSUME NEW r \in Requests, ClaimRefused(r) PROVE LaterInv'
        BY <2>12 DEF ClaimRefused
    <2>13. ASSUME NEW r \in Requests, Claim(r) PROVE LaterInv'
        BY <2>13 DEF Claim
    <2>14. ASSUME NEW r \in Requests, UpdateFails(r) PROVE LaterInv'
        BY <2>14 DEF UpdateFails
    <2>15. ASSUME NEW r \in Requests, Install(r) PROVE LaterInv'
        BY <2>15 DEF Install
    <2>16. ASSUME NEW r \in Requests, StartPhoton(r) PROVE LaterInv'
        BY <2>16 DEF StartPhoton
    <2> QED
        BY <1>2, <2>1, <2>2, <2>3, <2>4, <2>5, <2>6, <2>7, <2>8, <2>9, <2>10, <2>11, <2>12,
           <2>13, <2>14, <2>15, <2>16, NextCases
<1> QED
    BY <1>1, <1>2

(* A download that is not forced, and had its date from photon, installs   *)
(* something later than what photon served then.                           *)
THEOREM NothingIsRepeated == Spec => []NoRepeatedDownload
<1>1. Init => NameInv /\ FetchedInv /\ LaterInv
    BY DEF Init, NameInv, FetchedInv, Fetched, LaterInv, ToFetch, Compared
<1>2. LaterInv => NoRepeatedDownload
    BY DEF LaterInv, Compared, Fetched, NoRepeatedDownload, Installing
<1> QED
    BY <1>1, <1>2, TypedInit, TypedStep, NameInvStep, FetchedInvStep, LaterInvStep, PTL DEF Spec

=============================================================================
