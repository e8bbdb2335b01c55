------------------------------- MODULE Scrapes -------------------------------
(***************************************************************************)
(* The readers of the refreshers: scrapes of /metrics                      *)
(* (internal/collector, one collector per source) and probes of /readyz    *)
(* (internal/server and main.go, wiring.ready).                            *)
(*                                                                         *)
(* A scrape gathers all collectors concurrently: the collector of a source *)
(* loads the snapshot pointer once and then emits its metric families from *)
(* it, while the source_up gauge is read at a moment of its own.  A probe  *)
(* asks the sources one after the other.  The refreshers are modelled by   *)
(* what they promise (LastGoodSnapshot).                                   *)
(***************************************************************************)
EXTENDS LastGoodSnapshot, Sequences

CONSTANTS
  Scrapers,     \* the clients that scrape, each again and again
  ReadyOrder    \* the sources in the order of wiring.readyFuncs

ASSUME ReadyOrderAssumption ==
  /\ ReadyOrder \in Seq(Sources)
  /\ \A s \in Sources : \E i \in DOMAIN ReadyOrder : ReadyOrder[i] = s

VARIABLES
  held,         \* the snapshot a collector loaded, for each scraper and source
  first, second,\* the snapshots its first and last metric family came from
  upSeen,       \* the value of source_up in the scrape
  before,       \* history: the snapshots shown before the scrape started
  mustShow,     \* history: the exporter was ready before the scrape started
  probe,        \* how many sources the probe has asked, Idle between probes
  wasReady,     \* history: a source had data when the probe started
  status        \* the last answer of the probe

scrapeVars == <<held, first, second, upSeen, before, mustShow>>
probeVars == <<probe, wasReady, status>>
vars == <<lgsVars, scrapeVars, probeVars>>

NotYet == -1
Idle == -1

Shown == {NotYet, 0} \cup AnyAttempt

TypeOK ==
  /\ LgsTypeOK
  /\ held   \in [Scrapers -> [Sources -> Shown]]
  /\ first  \in [Scrapers -> [Sources -> Shown]]
  /\ second \in [Scrapers -> [Sources -> Shown]]
  /\ upSeen \in [Scrapers -> [Sources -> {NotYet, 0, 1}]]
  /\ before \in [Scrapers -> [Sources -> SUBSET (AnyAttempt \cup {1})]]
  /\ mustShow \in [Scrapers -> BOOLEAN]
  /\ probe \in {Idle} \cup 0 .. Len(ReadyOrder)
  /\ wasReady \in BOOLEAN
  /\ status \in {0, 200, 503}

Nothing == [c \in Scrapers |-> [s \in Sources |-> NotYet]]

Init ==
  /\ LgsInit
  /\ held = Nothing /\ first = Nothing /\ second = Nothing /\ upSeen = Nothing
  /\ before = [c \in Scrapers |-> [s \in Sources |-> {}]]
  /\ mustShow = [c \in Scrapers |-> FALSE]
  /\ probe = Idle /\ wasReady = FALSE /\ status = 0

(***************************************************************************)
(* Scrapes.                                                                *)
(***************************************************************************)

(* snap := c.source.Snapshot(). *)
LoadSnapshot(c, s) ==
  /\ held[c][s] = NotYet
  /\ held' = [held EXCEPT ![c][s] = snapshot[s]]
  /\ UNCHANGED <<lgsVars, first, second, upSeen, before, mustShow, probeVars>>

(* Faulty: the collector waits for a first snapshot. *)
EmitFirstWaits(c, s) ==
  /\ held[c][s] \notin {NotYet, 0} /\ first[c][s] = NotYet
  /\ first' = [first EXCEPT ![c][s] = held[c][s]]
  /\ UNCHANGED <<lgsVars, held, second, upSeen, before, mustShow, probeVars>>

(* The first and the last metric family of the source; without a snapshot  *)
(* both are empty, as Collect returns at once.                             *)
EmitFirst(c, s) ==
  /\ held[c][s] # NotYet /\ first[c][s] = NotYet
  /\ first' = [first EXCEPT ![c][s] = held[c][s]]
  /\ UNCHANGED <<lgsVars, held, second, upSeen, before, mustShow, probeVars>>

(* Faulty: each metric family loads the snapshot again. *)
EmitSecondReloads(c, s) ==
  /\ first[c][s] # NotYet /\ second[c][s] = NotYet
  /\ second' = [second EXCEPT ![c][s] = snapshot[s]]
  /\ UNCHANGED <<lgsVars, held, first, upSeen, before, mustShow, probeVars>>

EmitSecond(c, s) ==
  /\ first[c][s] # NotYet /\ second[c][s] = NotYet
  /\ second' = [second EXCEPT ![c][s] = held[c][s]]
  /\ UNCHANGED <<lgsVars, held, first, upSeen, before, mustShow, probeVars>>

(* The collector of the gauge vector runs concurrently. *)
ReadUp(c, s) ==
  /\ upSeen[c][s] = NotYet
  /\ upSeen' = [upSeen EXCEPT ![c][s] = up[s]]
  /\ UNCHANGED <<lgsVars, held, first, second, before, mustShow, probeVars>>

Gather(c) == \E s \in Sources :
  LoadSnapshot(c, s) \/ EmitFirst(c, s) \/ EmitSecond(c, s) \/ ReadUp(c, s)

Answered(c) == \A s \in Sources : second[c][s] # NotYet /\ upSeen[c][s] # NotYet

(* What finished scrapes have shown of s: a source shown up counts as      *)
(* having shown some snapshot.                                             *)
SeenIn(c, s) ==
  IF first[c][s] = 0 THEN {upSeen[c][s]} \ {0} ELSE {first[c][s]}
Seen(s) == UNION {SeenIn(c, s) : c \in {d \in Scrapers : Answered(d)}}

(* The scraper got its answer and scrapes again. *)
ScrapeAgain(c) ==
  /\ Answered(c)
  /\ held'   = [held   EXCEPT ![c] = Nothing[c]]
  /\ first'  = [first  EXCEPT ![c] = Nothing[c]]
  /\ second' = [second EXCEPT ![c] = Nothing[c]]
  /\ upSeen' = [upSeen EXCEPT ![c] = Nothing[c]]
  /\ before' = [before EXCEPT ![c] = [s \in Sources |-> @[s] \cup Seen(s)]]
  /\ mustShow' = [mustShow EXCEPT ![c] = @ \/ status = 200]
  /\ UNCHANGED <<lgsVars, probeVars>>

(***************************************************************************)
(* Readiness probes.                                                       *)
(***************************************************************************)

StartProbe ==
  /\ probe = Idle
  /\ probe' = 0
  /\ wasReady' = \E s \in Sources : snapshot[s] # 0
  /\ UNCHANGED <<lgsVars, scrapeVars, status>>

(* Faulty: the answer of the last source is the one that counts. *)
AskSourceLast ==
  /\ probe \in 0 .. Len(ReadyOrder) - 1
  /\ IF probe = Len(ReadyOrder) - 1 /\ snapshot[ReadyOrder[probe + 1]] # 0
     THEN probe' = Idle /\ status' = 200
     ELSE probe' = probe + 1 /\ UNCHANGED status
  /\ UNCHANGED <<lgsVars, scrapeVars, wasReady>>

(* ready() asks the next source and returns at the first that is. *)
AskSource ==
  /\ probe \in 0 .. Len(ReadyOrder) - 1
  /\ IF snapshot[ReadyOrder[probe + 1]] # 0
     THEN probe' = Idle /\ status' = 200
     ELSE probe' = probe + 1 /\ UNCHANGED status
  /\ UNCHANGED <<lgsVars, scrapeVars, wasReady>>

(* Faulty: the answer is 200 in any case. *)
AnswerReady ==
  /\ probe = Len(ReadyOrder)
  /\ probe' = Idle
  /\ status' = 200
  /\ UNCHANGED <<lgsVars, scrapeVars, wasReady>>

AnswerNotReady ==
  /\ probe = Len(ReadyOrder)
  /\ probe' = Idle
  /\ status' = 503
  /\ UNCHANGED <<lgsVars, scrapeVars, wasReady>>

-----------------------------------------------------------------------------

Publisher == LgsNext /\ UNCHANGED <<scrapeVars, probeVars>>
Probe == StartProbe \/ AskSource \/ AnswerNotReady

Next == Publisher \/ Probe \/ \E c \in Scrapers : Gather(c) \/ ScrapeAgain(c)

(* Only the handlers run for sure: the refreshers may be blocked in a      *)
(* Fetch, and nobody has to ask.                                           *)
Spec == Init /\ [][Next]_vars
        /\ \A c \in Scrapers : WF_vars(Gather(c))
        /\ WF_vars(AskSource \/ AnswerNotReady)

-----------------------------------------------------------------------------
(***************************************************************************)
(* Safety.                                                                 *)
(***************************************************************************)

(* A scrape shows one snapshot of a source, not a mixture of two, even if  *)
(* a refresh completes in the middle of it.                                *)
OneSnapshotPerScrape ==
  \A c \in Scrapers : Answered(c) => first[c] = second[c]

(* Scrapes do not go back in time: a scrape that starts after another has  *)
(* ended, of any client, shows data at least as recent; and data that was  *)
(* announced by source_up = 1, but missed by that same scrape because its  *)
(* collectors run concurrently, is in the next one.                        *)
ScrapesNeverGoBack ==
  \A c \in Scrapers, s \in Sources :
    first[c][s] # NotYet => \A n \in before[c][s] : first[c][s] >= n

(* Readiness keeps its word: every scrape that starts after /readyz        *)
(* answered 200 shows the data of some source.                             *)
ReadyMeansData ==
  \A c \in Scrapers :
    mustShow[c] /\ Answered(c) => \E s \in Sources : first[c][s] # 0

(* The loop over the sources is not atomic, but answers as if it was: a    *)
(* probe that starts when a source has data is answered 200, whatever is   *)
(* published while it asks.                                                *)
NotReadyIsTrue == [][AnswerNotReady => ~ wasReady]_vars

(***************************************************************************)
(* Liveness.                                                               *)
(***************************************************************************)

(* Scrapes and probes end without the help of any refresher: one that is   *)
(* blocked in a Fetch delays no reader.                                    *)
ReadersNeverWait ==
  /\ \A c \in Scrapers : []<>Answered(c)
  /\ probe # Idle ~> probe = Idle
=============================================================================
