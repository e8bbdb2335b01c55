---------------------------- MODULE ScrapesProofs ----------------------------
(***************************************************************************)
(* For any sources, attempts and scrapers, scrapes and probes that run     *)
(* concurrently with the refreshers show what a single one would.          *)
(***************************************************************************)
EXTENDS Scrapes, TLAPS

(***************************************************************************)
(* The inductive invariant.                                                *)
(***************************************************************************)

(* A source that is up, or about to be, has a snapshot. *)
PublishedInv(s) == up[s] = 1 \/ announcing[s] => snapshot[s] # 0

(* What a scrape holds or has emitted is one snapshot; it is not newer     *)
(* than the published one and not older than what was shown before.        *)
ScrapeInv(c, s) ==
  /\ second[c][s] # NotYet => first[c][s] = second[c][s]
  /\ first[c][s] # NotYet => held[c][s] = first[c][s]
  /\ held[c][s] <= snapshot[s]
  /\ upSeen[c][s] = 1 => snapshot[s] # 0
  /\ \A n \in before[c][s] :
       n <= snapshot[s] /\ (held[c][s] # NotYet => n <= held[c][s])

(* Data that was announced is still there, and a scrape that owes it has   *)
(* it or will load it.                                                     *)
ReadyInv ==
  /\ status = 200 => \E s \in Sources : snapshot[s] # 0
  /\ \A c \in Scrapers :
       mustShow[c] => \E s \in Sources : snapshot[s] # 0 /\ held[c][s] # 0

(* A probe that started when a source had data has yet to ask one. *)
ProbeInv ==
  wasReady /\ probe # Idle =>
    \E i \in DOMAIN ReadyOrder : i > probe /\ snapshot[ReadyOrder[i]] # 0

ReadersInv ==
  /\ TypeOK
  /\ \A s \in Sources : PublishedInv(s)
  /\ \A c \in Scrapers, s \in Sources : ScrapeInv(c, s)
  /\ ReadyInv
  /\ ProbeInv

-----------------------------------------------------------------------------

(* The values of snapshots, as the provers need them. *)
LEMMA AttemptNumbers ==
  /\ \A n \in AnyAttempt : n \in Nat /\ n # 0
  /\ \A n \in AnyAttempt \cup {0} : n \in Nat
  /\ \A n \in Shown : n \in Int
BY AttemptsAssumption DEF AnyAttempt, Shown, NotYet

(* The invariant holds when nobody has asked anything. *)
LEMMA InitInv == Init => ReadersInv
<1> SUFFICES ASSUME Init PROVE ReadersInv
  OBVIOUS
<1> USE DEF Init, LgsInit, Nothing, NotYet, Idle
<1>1. TypeOK
  BY ReadyOrderAssumption DEF TypeOK, LgsTypeOK, Shown
<1>2. ASSUME NEW s \in Sources PROVE PublishedInv(s)
  BY DEF PublishedInv
<1>3. ASSUME NEW c \in Scrapers, NEW s \in Sources PROVE ScrapeInv(c, s)
  BY DEF ScrapeInv
<1>4. ReadyInv /\ ProbeInv
  BY DEF ReadyInv, ProbeInv
<1> QED BY <1>1, <1>2, <1>3, <1>4 DEF ReadersInv

(* A step of a refresher: snapshots are only replaced by newer ones. *)
LEMMA PublisherStep == ReadersInv /\ Publisher => ReadersInv'
<1> SUFFICES ASSUME ReadersInv, Publisher PROVE ReadersInv'
  OBVIOUS
<1> USE AttemptNumbers, ReadyOrderAssumption
<1>0. TypeOK /\ LgsTypeOK
  BY DEF ReadersInv, TypeOK
<1>1. UNCHANGED <<scrapeVars, probeVars>>
  BY DEF Publisher
<1>2. /\ LgsTypeOK'
      /\ \A s \in Sources : snapshot'[s] >= snapshot[s] /\ (snapshot[s] # 0 => snapshot'[s] # 0)
      /\ \A s \in Sources : PublishedInv(s)'
  <2>1. PICK t \in Sources : PublishNewer(t) \/ ReportUp(t) \/ ReportDown(t)
    BY DEF Publisher, LgsNext
  <2>2. \A s \in Sources : PublishedInv(s)
    BY DEF ReadersInv
  <2>3. CASE PublishNewer(t)
    <3>1. PICK n \in AnyAttempt : n > snapshot[t] /\ snapshot' = [snapshot EXCEPT ![t] = n]
      BY <2>3 DEF PublishNewer, AnyAttempt
    <3>2. snapshot' \in [Sources -> AnyAttempt \cup {0}]
      BY <1>0, <3>1 DEF LgsTypeOK
    <3>3. \A s \in Sources : snapshot'[s] >= snapshot[s] /\ (snapshot[s] # 0 => snapshot'[s] # 0)
      BY <1>0, <3>1 DEF LgsTypeOK
    <3>4. snapshot'[t] # 0
      BY <1>0, <3>1 DEF LgsTypeOK
    <3>5. announcing' \in [Sources -> BOOLEAN] /\ up' = up
          /\ \A s \in Sources : s # t => announcing'[s] = announcing[s]
      BY <1>0, <2>3 DEF PublishNewer, LgsTypeOK
    <3>6. \A s \in Sources : PublishedInv(s)'
      BY <2>2, <3>3, <3>4, <3>5 DEF PublishedInv
    <3> QED BY <1>0, <3>2, <3>3, <3>5, <3>6 DEF LgsTypeOK
  <2>4. CASE ReportUp(t)
    <3>1. /\ up' \in [Sources -> {0, 1}] /\ announcing' \in [Sources -> BOOLEAN]
          /\ snapshot' = snapshot /\ announcing[t]
          /\ \A s \in Sources : s # t => up'[s] = up[s] /\ announcing'[s] = announcing[s]
      BY <1>0, <2>4 DEF ReportUp, LgsTypeOK
    <3>2. \A s \in Sources : PublishedInv(s)'
      BY <2>2, <3>1 DEF PublishedInv
    <3>3. \A s \in Sources : snapshot[s] \in Nat
      BY <1>0 DEF LgsTypeOK
    <3> QED BY <1>0, <3>1, <3>2, <3>3 DEF LgsTypeOK
  <2>5. CASE ReportDown(t)
    <3>1. /\ up' \in [Sources -> {0, 1}] /\ announcing' = announcing
          /\ snapshot' = snapshot /\ \A s \in Sources : up'[s] \in {0, up[s]}
      BY <1>0, <2>5 DEF ReportDown, LgsTypeOK
    <3>2. \A s \in Sources : PublishedInv(s)'
      BY <2>2, <3>1 DEF PublishedInv
    <3>3. \A s \in Sources : snapshot[s] \in Nat
      BY <1>0 DEF LgsTypeOK
    <3> QED BY <1>0, <3>1, <3>2, <3>3 DEF LgsTypeOK
  <2> QED BY <2>1, <2>3, <2>4, <2>5
<1>3. TypeOK'
  BY <1>0, <1>1, <1>2 DEF TypeOK, scrapeVars, probeVars
<1>4. ASSUME NEW c \in Scrapers, NEW s \in Sources PROVE ScrapeInv(c, s)'
  <2>1. ScrapeInv(c, s)
    BY <1>4 DEF ReadersInv
  <2>2. snapshot[s] \in Int /\ snapshot'[s] \in Int /\ held[c][s] \in Int
    <3>1. /\ snapshot[s] \in AnyAttempt \cup {0} /\ snapshot'[s] \in AnyAttempt \cup {0}
          /\ held[c][s] \in Shown
      BY <1>0, <1>2, <1>4 DEF TypeOK, LgsTypeOK
    <3> QED BY <3>1, AttemptNumbers
  <2>3. before[c][s] \subseteq Int
    <3>1. AnyAttempt \cup {1} \subseteq Int
      OBVIOUS
    <3> QED BY <1>0, <1>4, <3>1 DEF TypeOK
  <2> QED BY <1>1, <1>2, <1>4, <2>1, <2>2, <2>3 DEF ScrapeInv, scrapeVars
<1>5. ReadyInv'
  BY <1>1, <1>2 DEF ReadersInv, ReadyInv, scrapeVars, probeVars
<1>6. ProbeInv'
  BY <1>1, <1>2 DEF ReadersInv, ProbeInv, probeVars
<1> QED BY <1>2, <1>3, <1>4, <1>5, <1>6 DEF ReadersInv

(* A step of a scrape concerns one scraper, and no refresher or probe. *)
LEMMA ScrapeStep ==
  ASSUME ReadersInv, NEW d \in Scrapers, Gather(d) \/ ScrapeAgain(d)
  PROVE  ReadersInv'
<1> USE AttemptNumbers DEF NotYet
<1>0. TypeOK /\ LgsTypeOK /\ \A c \in Scrapers, s \in Sources : ScrapeInv(c, s)
  BY DEF ReadersInv, TypeOK
<1>1. UNCHANGED <<lgsVars, probeVars>>
  BY DEF Gather, ScrapeAgain, LoadSnapshot, EmitFirst, EmitSecond, ReadUp
<1>2. CASE Gather(d)
  <2>1. PICK t \in Sources :
          LoadSnapshot(d, t) \/ EmitFirst(d, t) \/ EmitSecond(d, t) \/ ReadUp(d, t)
    BY <1>2 DEF Gather
  <2>2. TypeOK'
    <3> USE <1>0, <1>1 DEF TypeOK, LgsTypeOK, Shown, lgsVars, probeVars
    <3>1. CASE LoadSnapshot(d, t)
      BY <3>1 DEF LoadSnapshot
    <3>2. CASE EmitFirst(d, t)
      BY <3>2 DEF EmitFirst
    <3>3. CASE EmitSecond(d, t)
      BY <3>3 DEF EmitSecond
    <3>4. CASE ReadUp(d, t)
      BY <3>4 DEF ReadUp
    <3> QED BY <2>1, <3>1, <3>2, <3>3, <3>4
  <2>3. ASSUME NEW c \in Scrapers, NEW s \in Sources PROVE ScrapeInv(c, s)'
    <3> USE <1>0, <1>1, <2>3 DEF TypeOK, LgsTypeOK, Shown, lgsVars, ScrapeInv
    <3>1. CASE LoadSnapshot(d, t)
      BY <3>1 DEF LoadSnapshot
    <3>2. CASE EmitFirst(d, t)
      BY <3>2 DEF EmitFirst
    <3>3. CASE EmitSecond(d, t)
      BY <3>3 DEF EmitSecond
    <3>4. CASE ReadUp(d, t)
      BY <3>4 DEF ReadUp, ReadersInv, PublishedInv
    <3> QED BY <2>1, <3>1, <3>2, <3>3, <3>4
  <2>4. ReadyInv'
    <3> SUFFICES ASSUME NEW c \in Scrapers, mustShow'[c]
                 PROVE  \E s \in Sources : snapshot'[s] # 0 /\ held'[c][s] # 0
      BY <1>1 DEF ReadersInv, ReadyInv, lgsVars, probeVars
    <3>1. mustShow' = mustShow
      BY <2>1 DEF LoadSnapshot, EmitFirst, EmitSecond, ReadUp
    <3>2. PICK s \in Sources : snapshot[s] # 0 /\ held[c][s] # 0
      BY <3>1 DEF ReadersInv, ReadyInv
    <3>3. held'[c][s] # 0
      <4>1. CASE LoadSnapshot(d, t)
        BY <1>0, <3>2, <4>1 DEF LoadSnapshot, TypeOK
      <4>2. CASE EmitFirst(d, t) \/ EmitSecond(d, t) \/ ReadUp(d, t)
        BY <3>2, <4>2 DEF EmitFirst, EmitSecond, ReadUp
      <4> QED BY <2>1, <4>1, <4>2
    <3> QED BY <1>1, <3>2, <3>3 DEF lgsVars
  <2> QED BY <1>1, <2>2, <2>3, <2>4
             DEF ReadersInv, PublishedInv, ProbeInv, lgsVars, probeVars
<1>3. CASE ScrapeAgain(d)
  <2> USE DEF ScrapeAgain, Nothing
  <2>1. ASSUME NEW s \in Sources, NEW n \in Seen(s)
        PROVE  n \in AnyAttempt \cup {1} /\ n <= snapshot[s]
    <3>1. PICK c \in Scrapers : Answered(c) /\ n \in SeenIn(c, s)
      BY <2>1 DEF Seen
    <3>2. /\ ScrapeInv(c, s) /\ second[c][s] # NotYet
          /\ first[c][s] \in Shown /\ second[c][s] \in Shown
          /\ snapshot[s] \in AnyAttempt \cup {0} /\ upSeen[c][s] \in {-1, 0, 1}
          /\ upSeen[c][s] # NotYet
      BY <1>0, <3>1 DEF Answered, TypeOK, LgsTypeOK
    <3> QED BY <3>1, <3>2 DEF SeenIn, ScrapeInv, Shown
  <2>2. TypeOK'
    <3>1. before' \in [Scrapers -> [Sources -> SUBSET (AnyAttempt \cup {1})]]
      BY <1>0, <1>3, <2>1 DEF TypeOK
    <3>2. /\ held' \in [Scrapers -> [Sources -> Shown]]
          /\ first' \in [Scrapers -> [Sources -> Shown]]
          /\ second' \in [Scrapers -> [Sources -> Shown]]
          /\ upSeen' \in [Scrapers -> [Sources -> {NotYet, 0, 1}]]
          /\ mustShow' \in [Scrapers -> BOOLEAN]
      BY <1>0, <1>3 DEF TypeOK, Shown
    <3> QED BY <1>0, <1>1, <3>1, <3>2 DEF TypeOK, LgsTypeOK, lgsVars, probeVars
  <2>3. ASSUME NEW c \in Scrapers, NEW s \in Sources PROVE ScrapeInv(c, s)'
    <3>1. CASE c = d
      <4>1. /\ held'[c][s] = -1 /\ first'[c][s] = -1 /\ second'[c][s] = -1
            /\ upSeen'[c][s] = -1
            /\ before'[c][s] = before[c][s] \cup Seen(s)
            /\ snapshot' = snapshot /\ snapshot[s] \in AnyAttempt \cup {0}
        BY <1>0, <1>1, <1>3, <3>1 DEF TypeOK, LgsTypeOK, lgsVars
      <4>2. \A n \in before[c][s] : n <= snapshot[s]
        BY <1>0 DEF ScrapeInv
      <4> QED BY <2>1, <4>1, <4>2 DEF ScrapeInv
    <3>2. CASE c # d
      BY <1>0, <1>1, <1>3, <3>2 DEF TypeOK, ScrapeInv, lgsVars
    <3> QED BY <3>1, <3>2
  <2>4. ReadyInv'
    <3> SUFFICES ASSUME NEW c \in Scrapers, mustShow'[c]
                 PROVE  \E s \in Sources : snapshot'[s] # 0 /\ held'[c][s] # 0
      BY <1>1 DEF ReadersInv, ReadyInv, lgsVars, probeVars
    <3>1. CASE c = d
      <4>1. PICK s \in Sources : snapshot[s] # 0
        BY <1>0, <1>3, <3>1 DEF ReadersInv, ReadyInv, TypeOK
      <4>2. held'[c][s] = -1
        BY <1>0, <1>3, <3>1 DEF TypeOK
      <4> QED BY <1>1, <4>1, <4>2 DEF lgsVars
    <3>2. CASE c # d
      BY <1>0, <1>1, <1>3, <3>2 DEF ReadersInv, ReadyInv, TypeOK, lgsVars
    <3> QED BY <3>1, <3>2
  <2> QED BY <1>1, <2>2, <2>3, <2>4
             DEF ReadersInv, PublishedInv, ProbeInv, lgsVars, probeVars
<1> QED BY <1>2, <1>3

(* A step of the probe: it asks every source, the ones that were asked and *)
(* had nothing excepted. *)
LEMMA ProbeStep == ReadersInv /\ Probe => ReadersInv'
<1> SUFFICES ASSUME ReadersInv, Probe PROVE ReadersInv'
  OBVIOUS
<1> USE ReadyOrderAssumption DEF Idle
<1>0. TypeOK /\ Len(ReadyOrder) \in Nat /\ DOMAIN ReadyOrder = 1 .. Len(ReadyOrder)
  BY DEF ReadersInv
<1>1. UNCHANGED <<lgsVars, scrapeVars>>
  BY DEF Probe, StartProbe, AskSource, AnswerNotReady
<1>2. TypeOK' /\ ProbeInv' /\ (status' = 200 => status = 200 \/ \E s \in Sources : snapshot[s] # 0)
  <2>1. CASE StartProbe
    <3>1. ASSUME wasReady' PROVE \E i \in DOMAIN ReadyOrder : i > 0 /\ snapshot[ReadyOrder[i]] # 0
      <4>1. PICK s \in Sources : snapshot[s] # 0
        BY <2>1, <3>1 DEF StartProbe
      <4>2. PICK i \in DOMAIN ReadyOrder : ReadyOrder[i] = s
        OBVIOUS
      <4> QED BY <1>0, <4>1, <4>2
    <3> QED BY <1>0, <1>1, <2>1, <3>1
               DEF StartProbe, TypeOK, LgsTypeOK, ProbeInv, lgsVars, scrapeVars
  <2>2. CASE AskSource
    <3>1. probe + 1 \in DOMAIN ReadyOrder /\ ReadyOrder[probe + 1] \in Sources
      BY <1>0, <2>2 DEF AskSource
    <3>2. TypeOK' /\ (status' = 200 => status = 200 \/ \E s \in Sources : snapshot[s] # 0)
      BY <1>0, <1>1, <2>2, <3>1 DEF AskSource, TypeOK, LgsTypeOK, lgsVars, scrapeVars
    <3>3. ProbeInv'
      <4>1. SUFFICES ASSUME wasReady', probe' # -1
                     PROVE  \E i \in DOMAIN ReadyOrder : i > probe' /\ snapshot'[ReadyOrder[i]] # 0
        BY DEF ProbeInv
      <4>2. wasReady /\ probe # -1 /\ snapshot[ReadyOrder[probe + 1]] = 0 /\ probe' = probe + 1
            /\ probe \in Nat
        BY <2>2, <4>1 DEF AskSource
      <4>3. PICK i \in DOMAIN ReadyOrder : i > probe /\ snapshot[ReadyOrder[i]] # 0
        BY <4>2 DEF ReadersInv, ProbeInv
      <4> QED BY <1>0, <1>1, <4>2, <4>3 DEF lgsVars
    <3> QED BY <3>2, <3>3
  <2>3. CASE AnswerNotReady
    BY <1>0, <1>1, <2>3 DEF AnswerNotReady, TypeOK, LgsTypeOK, ProbeInv, lgsVars, scrapeVars
  <2> QED BY <2>1, <2>2, <2>3 DEF Probe
<1>3. ReadyInv'
  BY <1>1, <1>2 DEF ReadersInv, ReadyInv, lgsVars, scrapeVars
<1> QED BY <1>1, <1>2, <1>3 DEF ReadersInv, PublishedInv, ScrapeInv, lgsVars, scrapeVars

(* The invariant is inductive. *)
LEMMA NextInv == ReadersInv /\ [Next]_vars => ReadersInv'
<1> SUFFICES ASSUME ReadersInv, [Next]_vars PROVE ReadersInv'
  OBVIOUS
<1>1. CASE UNCHANGED vars
  BY <1>1 DEF vars, lgsVars, scrapeVars, probeVars, ReadersInv, TypeOK, LgsTypeOK,
              PublishedInv, ScrapeInv, ReadyInv, ProbeInv, Shown
<1> QED BY <1>1, PublisherStep, ProbeStep, ScrapeStep DEF Next

(* The invariant holds in every reachable state. *)
LEMMA Invariance == Spec => []ReadersInv
BY InitInv, NextInv, PTL DEF Spec

-----------------------------------------------------------------------------
(* The variables have their types. *)
THEOREM TypeCorrect == Spec => []TypeOK
<1>1. ReadersInv => TypeOK
  BY DEF ReadersInv
<1> QED BY <1>1, Invariance, PTL

(* A scrape shows one snapshot of a source, even if a refresh completes in *)
(* the middle of it.                                                       *)
THEOREM OneSnapshotPerScrapeHolds == Spec => []OneSnapshotPerScrape
<1>1. ReadersInv => OneSnapshotPerScrape
  <2> SUFFICES ASSUME ReadersInv, NEW c \in Scrapers, Answered(c) PROVE first[c] = second[c]
    BY DEF OneSnapshotPerScrape
  <2>1. \A s \in Sources : first[c][s] = second[c][s]
    BY DEF ReadersInv, ScrapeInv, Answered
  <2>2. first[c] \in [Sources -> Shown] /\ second[c] \in [Sources -> Shown]
    BY DEF ReadersInv, TypeOK
  <2> QED BY <2>1, <2>2
<1> QED BY <1>1, Invariance, PTL

(* Scrapes do not go back in time, of whatever clients.                    *)
THEOREM ScrapesNeverGoBackHolds == Spec => []ScrapesNeverGoBack
<1>1. ReadersInv => ScrapesNeverGoBack
  BY DEF ReadersInv, ScrapeInv, ScrapesNeverGoBack
<1> QED BY <1>1, Invariance, PTL

(* A scrape that starts after /readyz answered 200 shows some data.        *)
THEOREM ReadyMeansDataHolds == Spec => []ReadyMeansData
<1>1. ReadersInv => ReadyMeansData
  <2> SUFFICES ASSUME ReadersInv, NEW c \in Scrapers, mustShow[c], Answered(c)
               PROVE  \E s \in Sources : first[c][s] # 0
    BY DEF ReadyMeansData
  <2>1. PICK s \in Sources : held[c][s] # 0
    BY DEF ReadersInv, ReadyInv
  <2>2. second[c][s] # NotYet /\ ScrapeInv(c, s)
    BY DEF Answered, ReadersInv
  <2> QED BY <2>1, <2>2 DEF ScrapeInv, NotYet
<1> QED BY <1>1, Invariance, PTL

(* A probe that starts when a source has data is not answered 503, though  *)
(* the sources are asked one after the other.                              *)
THEOREM NotReadyIsTrueHolds == Spec => NotReadyIsTrue
<1>1. ReadersInv /\ [Next]_vars => [AnswerNotReady => ~ wasReady]_vars
  <2> SUFFICES ASSUME ReadersInv, AnswerNotReady PROVE ~ wasReady
    OBVIOUS
  <2>1. probe = Len(ReadyOrder) /\ probe # Idle /\ Len(ReadyOrder) \in Nat
        /\ DOMAIN ReadyOrder = 1 .. Len(ReadyOrder)
    BY ReadyOrderAssumption DEF AnswerNotReady, Idle
  <2> QED BY <2>1 DEF ReadersInv, ProbeInv
<1> QED BY <1>1, Invariance, PTL DEF Spec, NotReadyIsTrue
=============================================================================
