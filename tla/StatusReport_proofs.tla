------------------------- MODULE StatusReport_proofs -------------------------
(***************************************************************************)
(* The series and the status are right for any set of sites, any number of *)
(* edits and failed updates, and words of any width.                       *)
(***************************************************************************)
EXTENDS StatusReport, TLAPS

-----------------------------------------------------------------------------
(***************************************************************************)
(* Positions.                                                              *)
(***************************************************************************)
\* A rendered text names a place below Word * Word.
LEMMA PlaceBound ==
  ASSUME NEW t \in Rendered
  PROVE  /\ Place(t) \in Nat
         /\ Place(t) < Word * Word
<1>1. t.hi \in Nat /\ t.lo \in Nat /\ t.hi + 1 <= Word /\ t.lo < Word /\ Word \in Nat
  BY WordAssumption DEF Rendered, Text
<1> DEFINE h == t.hi
           w == Word
<1>2. h * w \in Nat /\ w * w \in Nat
  BY <1>1
<1>3. (h + 1) * w <= w * w
  BY <1>1
<1>4. (h + 1) * w = h * w + w
  BY <1>1
<1> QED
  BY <1>1, <1>2, <1>3, <1>4 DEF Place

\* ParseLSN gives the place, or nothing for a text that is not rendered.
LEMMA ParseIsPlace ==
  ASSUME NEW t \in Text
  PROVE  /\ t \in Rendered => ParseLSN(t) = Place(t)
         /\ t \notin Rendered => ParseLSN(t) = Unknown
<1>1. CASE t \in Rendered
  <2>1. ~(~t.cut \/ t.hi >= Word \/ t.lo >= Word)
    BY <1>1, WordAssumption DEF Rendered, Text
  <2>2. Place(t) % (Word * Word) = Place(t)
    <3>1. Word * Word \in Nat
      BY WordAssumption
    <3> QED
      BY <3>1, <1>1, PlaceBound
  <2> QED
    BY <1>1, <2>1, <2>2 DEF ParseLSN, Place
<1>2. CASE t \notin Rendered
  BY <1>2, WordAssumption DEF Rendered, Text, ParseLSN
<1> QED
  BY <1>1, <1>2

\* A larger high word outweighs every low word.
LEMMA HighWord ==
  ASSUME NEW t \in Rendered, NEW u \in Rendered, t.hi < u.hi
  PROVE  Place(t) < Place(u)
<1>1. /\ t.hi \in Nat /\ t.lo \in Nat /\ t.lo < Word
      /\ u.hi \in Nat /\ u.lo \in Nat /\ t.hi + 1 <= u.hi /\ Word \in Nat
  BY WordAssumption DEF Rendered, Text
<1>2. t.hi * Word \in Nat /\ u.hi * Word \in Nat
  BY <1>1
<1>3. (t.hi + 1) * Word <= u.hi * Word
  BY <1>1
<1>4. (t.hi + 1) * Word = t.hi * Word + Word
  BY <1>1
<1> QED
  BY <1>1, <1>2, <1>3, <1>4 DEF Place

(***************************************************************************)
(* ParseLSN orders the texts of PostgreSQL as they are meant, high word    *)
(* first, and gives different texts different numbers: comparing the       *)
(* numbers, as moreAdvanced and publishMetrics do, compares the positions. *)
(***************************************************************************)
THEOREM ParseOrdersTexts ==
  ASSUME NEW t \in Rendered, NEW u \in Rendered
  PROVE  ParseLSN(t) < ParseLSN(u) <=> t.hi < u.hi \/ (t.hi = u.hi /\ t.lo < u.lo)
<1>1. /\ t.hi \in Nat /\ t.lo \in Nat /\ u.hi \in Nat /\ u.lo \in Nat /\ Word \in Nat
      /\ t \in Text /\ u \in Text
  BY WordAssumption DEF Rendered, Text
<1>2. ParseLSN(t) = Place(t) /\ ParseLSN(u) = Place(u)
  BY <1>1, ParseIsPlace
<1>3. Place(t) \in Nat /\ Place(u) \in Nat
  BY PlaceBound
<1>4. CASE t.hi < u.hi
  BY <1>1, <1>2, <1>4, HighWord
<1>5. CASE u.hi < t.hi
  <2>1. Place(u) < Place(t)
    BY <1>5, HighWord
  <2> QED
    BY <1>1, <1>2, <1>3, <1>5, <2>1
<1>6. CASE t.hi = u.hi
  <2>1. t.hi * Word \in Nat
    BY <1>1
  <2> QED
    BY <1>1, <1>2, <1>6, <2>1 DEF Place
<1> QED
  BY <1>1, <1>4, <1>5, <1>6

-----------------------------------------------------------------------------
(***************************************************************************)
(* Observations and decisions.                                             *)
(***************************************************************************)
\* The number in an observation is the place its text names.
Read(o) ==
  \/ o.lsn = Unknown /\ o.lsnValue = Unknown
  \/ o.lsn \in Rendered /\ o.lsnValue = Place(o.lsn)

Observations == [Reachable : BOOLEAN, Primary : BOOLEAN, Ready : BOOLEAN,
                 lsn : Text \cup {Unknown}, lsnValue : Nat \cup {Unknown}]

\* A buffer over the sites S: every other site is marked as not listed.
BufferOf(buffer, S) ==
  /\ buffer \in [Sites -> Observations]
  /\ \A s \in Sites : Read(buffer[s])
  /\ \A s \in Sites \ S : ~buffer[s].Reachable

LEMMA RenderedText == Rendered \subseteq Text /\ Unknown \notin Rendered /\ Unknown \notin Nat
BY WordAssumption DEF Rendered

LEMMA ObservationRead ==
  ASSUME NEW o \in Observation
  PROVE  o \in Observations /\ Read(o)
<1>1. PICK h \in Healths, p \in PostgresProbe \cup {Unknown}, answer \in Answers :
        o = Observe(h, probePostgres(h, p, answer))
  BY DEF Observation
<1> DEFINE r == probePostgres(h, p, answer)
<1>2. r = Failed \/ (answer # Unknown /\ ParseLSN(answer) # Unknown
                     /\ r = [LSN |-> answer, LSNValue |-> ParseLSN(answer)])
  BY DEF probePostgres, SQLProbe
<1>3. CASE r = Failed
  BY <1>1, <1>3 DEF Observe, Failed, Read, Observations, Healths, SiteHealth
<1>4. CASE answer # Unknown /\ ParseLSN(answer) # Unknown
           /\ r = [LSN |-> answer, LSNValue |-> ParseLSN(answer)]
  <2>1. answer \in Text
    BY <1>4 DEF Answers
  <2>2. answer \in Rendered /\ ParseLSN(answer) = Place(answer)
    BY <1>4, <2>1, ParseIsPlace
  <2>3. Place(answer) \in Nat
    BY <2>2, PlaceBound
  <2> QED
    BY <1>1, <1>4, <2>1, <2>2, <2>3 DEF Observe, Read, Observations, Healths, SiteHealth
<1> QED
  BY <1>2, <1>3, <1>4

LEMMA UnlistedRead == Unlisted \in Observations /\ Read(Unlisted) /\ ~Unlisted.Reachable
BY DEF Unlisted, Observe, Failed, Unreachable, Observations, Read

\* The decision is a site exactly when that site is the only candidate.
LEMMA DecisionMeaning ==
  ASSUME NEW buffer, NEW s \in Sites
  PROVE  /\ s = decideCurrentPrimary(buffer) <=> primaryReadyCandidates(buffer) = {s}
         /\ decideCurrentPrimary(buffer) \in Sites \cup {NoSite}
         /\ NoSite \notin Sites
<1> DEFINE C == primaryReadyCandidates(buffer)
<1>0. C \subseteq Sites /\ NoSite \notin Sites
  BY NoSiteAssumption DEF primaryReadyCandidates
<1>1. CASE C = {} \/ detectSplitBrain(buffer)
  <2>1. decideCurrentPrimary(buffer) = NoSite
    BY <1>1 DEF decideCurrentPrimary
  <2>2. C # {s}
    BY <1>1 DEF detectSplitBrain
  <2> QED
    BY <1>0, <2>1, <2>2
<1>2. CASE ~(C = {} \/ detectSplitBrain(buffer))
  <2>1. decideCurrentPrimary(buffer) = CHOOSE x \in C : TRUE
    BY <1>2 DEF decideCurrentPrimary
  <2>2. decideCurrentPrimary(buffer) \in C
    BY <1>2, <2>1
  <2>3. \A x, y \in C : x = y
    BY <1>2 DEF detectSplitBrain
  <2> QED
    BY <1>0, <2>2, <2>3
<1> QED
  BY <1>1, <1>2

\* A promotion changes roles and readiness, not positions.
LEMMA EffectKeepsPositions ==
  ASSUME NEW S \in SUBSET Sites, NEW buffer, BufferOf(buffer, S),
         NEW demoted \in S, NEW promoted \in S
  PROVE  BufferOf(applyPromotionEffect(buffer, demoted, promoted), S)
<1> DEFINE after == applyPromotionEffect(buffer, demoted, promoted)
<1>1. after \in [Sites -> Observations]
  <2> DEFINE b1 == [buffer EXCEPT ![demoted].Primary = FALSE]
             b2 == [b1 EXCEPT ![demoted].Ready = FALSE]
             b3 == [b2 EXCEPT ![promoted].Primary = TRUE]
  <2>1. b1 \in [Sites -> Observations]
    BY DEF BufferOf, Observations
  <2> HIDE DEF b1
  <2>2. b2 \in [Sites -> Observations]
    BY <2>1 DEF Observations
  <2> HIDE DEF b2
  <2>3. b3 \in [Sites -> Observations]
    BY <2>2 DEF Observations
  <2>4. after = b3
    BY DEF applyPromotionEffect, b1, b2
  <2> QED
    BY <2>3, <2>4
<1>2. \A s \in Sites : /\ after[s].lsn = buffer[s].lsn
                       /\ after[s].lsnValue = buffer[s].lsnValue
                       /\ after[s].Reachable = buffer[s].Reachable
  BY DEF BufferOf, applyPromotionEffect, Observations
<1> QED
  BY <1>1, <1>2 DEF BufferOf, Read

-----------------------------------------------------------------------------
(***************************************************************************)
(* The invariant: the properties, the shape of the buffers, and that the   *)
(* series of the listed sites say what the last reconcile saw for as long  *)
(* as the spec is not edited, during a reconcile too.                      *)
(***************************************************************************)
Shape ==
  /\ spec \in SUBSET Sites /\ ha \in SUBSET Sites
  /\ pc \in {"idle", "update"}
  /\ gauge \in [Sites -> Series]
  /\ BufferOf(obs, ha)

PrimaryShown ==
  fresh => /\ truth \subseteq spec
           /\ \A s \in spec : gauge[s].primary = TRUE <=> truth = {s}

Inv == Shape /\ LagIsDistance /\ OneSeriesPerSite /\ PrimaryShown /\ StatusTellsSites

LEMMA EmptyBuffer == BufferOf([s \in Sites |-> Unlisted], {})
BY UnlistedRead DEF BufferOf

LEMMA InvInit == Init => Inv
<1> SUFFICES ASSUME Init PROVE Inv
  OBVIOUS
<1>1. Shape
  <2>1. NoSeries \in Series
    BY DEF NoSeries, Series
  <2>2. spec \in SUBSET Sites /\ ha = {}
    BY DEF Init
  <2>3. BufferOf(obs, ha)
    BY <2>2, EmptyBuffer DEF Init
  <2> QED
    BY <2>1, <2>2, <2>3 DEF Init, Shape
<1>2. LagIsDistance
  BY DEF Init, LagIsDistance
<1>3. OneSeriesPerSite
  BY DEF Init, OneSeriesPerSite, NoSeries
<1>4. PrimaryShown
  BY DEF Init, PrimaryShown
<1>5. StatusTellsSites
  BY DEF Init, NewStatus, StatusTellsSites
<1> QED
  BY <1>1, <1>2, <1>3, <1>4, <1>5 DEF Inv

\* lagBytes is the distance between two places, without wrapping around.
LEMMA LagBytesMeaning ==
  ASSUME NEW first \in Nat, NEW mine \in Nat, first < Word * Word, mine < Word * Word,
         NEW is \in BOOLEAN, is => mine = first
  PROVE  lagBytes(is, first, mine) = IF mine < first THEN first - mine ELSE 0
<1>1. Word * Word \in Nat /\ Unknown # first /\ Unknown # mine
  BY WordAssumption
<1>2. CASE mine < first
  <2>1. Minus(first, mine) = first - mine
    <3> DEFINE d == first - mine
               w == Word * Word
    <3>1. d \in Nat /\ d < w /\ w \in Nat /\ first + w - mine = d + w
      BY <1>1, <1>2
    <3> HIDE DEF d, w
    <3>2. (d + w) % w = d
      BY <3>1
    <3> QED
      BY <3>1, <3>2 DEF Minus, d, w
  <2> QED
    BY <1>1, <1>2, <2>1 DEF lagBytes
<1>3. CASE ~(mine < first)
  BY <1>1, <1>3 DEF lagBytes
<1> QED
  BY <1>2, <1>3

(***************************************************************************)
(* One reconcile up to publishMetrics.                                     *)
(***************************************************************************)
LEMMA InvReport ==
  ASSUME Inv, NEW buffer, BufferOf(buffer, spec), Report(buffer)
  PROVE  Inv'
<1> DEFINE cur == decideCurrentPrimary(buffer)
           first == primaryLSN(cur, buffer)
           row(s) == [primary |-> s = cur,
                      reachable |-> buffer[s].Reachable, ready |-> buffer[s].Ready,
                      lagBytes |-> lagBytes(s = cur, first, buffer[s].lsnValue),
                      lsnBytes |-> buffer[s].lsnValue]
<1>0. Shape /\ OneSeriesPerSite /\ StatusTellsSites
  BY DEF Inv
<1>1. /\ ha' = spec /\ spec' = spec /\ obs' = buffer /\ pc' = "update" /\ fresh'
      /\ truth' = primaryReadyCandidates(buffer) /\ status' = status
      /\ lsnInfo' = SiteLSNInfo(buffer)
      /\ gauge' = [s \in Sites |-> IF s \notin spec THEN gauge[s] ELSE row(s)]
  BY DEF Report, publishMetrics, publishedPrimary
<1>2. \A s \in Sites : /\ Read(buffer[s]) /\ buffer[s] \in Observations
  BY DEF BufferOf
<1>3. cur \in Sites \cup {NoSite} /\ NoSite \notin Sites
      /\ \A s \in Sites : s = cur <=> primaryReadyCandidates(buffer) = {s}
  <2>1. Declared \in Sites
    BY SpecAssumption
  <2>2. cur \in Sites \cup {NoSite} /\ NoSite \notin Sites
    BY <2>1, DecisionMeaning
  <2>3. \A s \in Sites : s = cur <=> primaryReadyCandidates(buffer) = {s}
    BY DecisionMeaning
  <2> QED
    BY <2>2, <2>3
<1>c. cur = NoSite \/ cur \in Sites
  BY <1>3
<1>d. currentPrimary' = cur
  BY <1>1 DEF currentPrimary
<1> HIDE DEF cur
<1>4. \A s \in Sites : lagBytes(s = cur, first, buffer[s].lsnValue) =
        IF ~(cur # NoSite /\ buffer[cur].lsn # Unknown /\ buffer[s].lsn # Unknown)
        THEN Unknown
        ELSE IF Place(buffer[s].lsn) < Place(buffer[cur].lsn)
        THEN Place(buffer[cur].lsn) - Place(buffer[s].lsn) ELSE 0
  <2> SUFFICES ASSUME NEW s \in Sites
               PROVE lagBytes(s = cur, first, buffer[s].lsnValue) =
                       IF ~(cur # NoSite /\ buffer[cur].lsn # Unknown /\ buffer[s].lsn # Unknown)
                       THEN Unknown
                       ELSE IF Place(buffer[s].lsn) < Place(buffer[cur].lsn)
                       THEN Place(buffer[cur].lsn) - Place(buffer[s].lsn) ELSE 0
    OBVIOUS
  <2>1. CASE cur # NoSite /\ buffer[cur].lsn # Unknown /\ buffer[s].lsn # Unknown
    <3>1. /\ buffer[cur].lsn \in Rendered /\ buffer[cur].lsnValue = Place(buffer[cur].lsn)
          /\ buffer[s].lsn \in Rendered /\ buffer[s].lsnValue = Place(buffer[s].lsn)
      BY <2>1, <1>2, <1>c DEF Read
    <3>2. first = Place(buffer[cur].lsn)
      BY <3>1, <2>1 DEF primaryLSN
    <3>3. /\ Place(buffer[cur].lsn) \in Nat /\ Place(buffer[cur].lsn) < Word * Word
          /\ Place(buffer[s].lsn) \in Nat /\ Place(buffer[s].lsn) < Word * Word
      BY <3>1, PlaceBound
    <3>4. lagBytes(s = cur, Place(buffer[cur].lsn), Place(buffer[s].lsn)) =
            IF Place(buffer[s].lsn) < Place(buffer[cur].lsn)
            THEN Place(buffer[cur].lsn) - Place(buffer[s].lsn) ELSE 0
      BY <3>3, LagBytesMeaning
    <3> QED
      BY <2>1, <3>1, <3>2, <3>4
  <2>2. CASE ~(cur # NoSite /\ buffer[cur].lsn # Unknown /\ buffer[s].lsn # Unknown)
    <3>1. first = Unknown \/ buffer[s].lsnValue = Unknown
      BY <2>2, <1>2, <1>c, RenderedText DEF Read, primaryLSN
    <3> QED
      BY <2>2, <3>1 DEF lagBytes
  <2> QED
    BY <2>1, <2>2
<1>5. \A s \in Sites : row(s) \in Series
  <2> SUFFICES ASSUME NEW s \in Sites PROVE row(s) \in Series
    OBVIOUS
  <2>1. lagBytes(s = cur, first, buffer[s].lsnValue) \in Nat \cup {Unknown}
    <3>1. CASE cur # NoSite /\ buffer[cur].lsn # Unknown /\ buffer[s].lsn # Unknown
      <4>1. Place(buffer[cur].lsn) \in Nat /\ Place(buffer[s].lsn) \in Nat
        BY <3>1, <1>2, <1>c, PlaceBound DEF Read
      <4> QED
        BY <3>1, <4>1, <1>4
    <3>2. CASE ~(cur # NoSite /\ buffer[cur].lsn # Unknown /\ buffer[s].lsn # Unknown)
      BY <3>2, <1>4
    <3> QED
      BY <3>1, <3>2
  <2> HIDE DEF first
  <2> QED
    BY <2>1, <1>2 DEF Series, Observations
<1> HIDE DEF first
<1>6. Shape'
  <2>1. gauge' \in [Sites -> Series]
    BY <1>0, <1>1, <1>5 DEF Shape
  <2> QED
    BY <2>1, <1>0, <1>1 DEF Shape
<1>7. LagIsDistance'
  <2> SUFFICES ASSUME NEW s \in spec
               PROVE gauge'[s].lagBytes =
                       IF ~(cur # NoSite /\ buffer[cur].lsn # Unknown /\ buffer[s].lsn # Unknown)
                       THEN Unknown
                       ELSE IF Place(buffer[s].lsn) < Place(buffer[cur].lsn)
                       THEN Place(buffer[cur].lsn) - Place(buffer[s].lsn) ELSE 0
    BY <1>1, <1>d DEF LagIsDistance, Place
  <2>1. s \in Sites
    BY <1>0 DEF Shape
  <2>2. gauge'[s].lagBytes = lagBytes(s = cur, first, buffer[s].lsnValue)
    BY <1>1, <2>1
  <2> QED
    BY <1>4, <2>1, <2>2
<1>8. OneSeriesPerSite'
  <2> SUFFICES ASSUME NEW s \in Sites
               PROVE LET texts == {e[2] : e \in {x \in lsnInfo' : x[1] = s}}
                     IN  IF gauge'[s].lsnBytes = Unknown THEN texts = {}
                         ELSE \E t \in Rendered : texts = {t} /\ gauge'[s].lsnBytes = Place(t)
    BY DEF OneSeriesPerSite, Place
  <2> DEFINE old == {x \in lsnInfo : x[1] = s}
             new == {x \in lsnInfo' : x[1] = s}
  <2>0. lsnInfo' = {e \in lsnInfo : e[1] \notin spec} \cup
          {<<u, buffer[u].lsn>> : u \in {v \in spec : buffer[v].lsnValue # Unknown}}
    BY <1>1 DEF SiteLSNInfo
  <2>1. CASE s \notin spec
    <3>1. new = old
      BY <2>0, <2>1
    <3>2. gauge'[s] = gauge[s]
      BY <1>1, <2>1
    <3> QED
      BY <3>1, <3>2, <1>0 DEF OneSeriesPerSite
  <2>2. CASE s \in spec /\ buffer[s].lsnValue = Unknown
    <3>1. new = {}
      BY <2>0, <2>2
    <3>2. gauge'[s].lsnBytes = Unknown
      BY <1>1, <2>2
    <3> QED
      BY <3>1, <3>2
  <2>3. CASE s \in spec /\ buffer[s].lsnValue # Unknown
    <3>1. new = {<<s, buffer[s].lsn>>}
      BY <2>0, <2>3
    <3>2. gauge'[s].lsnBytes = buffer[s].lsnValue
      BY <1>1, <2>3
    <3>3. buffer[s].lsn \in Rendered /\ buffer[s].lsnValue = Place(buffer[s].lsn)
      BY <2>3, <1>2 DEF Read
    <3>4. {e[2] : e \in new} = {buffer[s].lsn}
      <4> HIDE DEF new
      <4> QED
        BY <3>1
    <3> QED
      BY <2>3, <3>2, <3>3, <3>4
  <2> QED
    BY <2>1, <2>2, <2>3
<1>9. PrimaryShown'
  <2>0. primaryReadyCandidates(buffer) \subseteq spec
    BY DEF primaryReadyCandidates, ReadyPrimary, BufferOf
  <2> SUFFICES ASSUME NEW s \in spec
               PROVE gauge'[s].primary = TRUE <=> primaryReadyCandidates(buffer) = {s}
    BY <1>1, <2>0 DEF PrimaryShown
  <2>1. s \in Sites
    BY <1>0 DEF Shape
  <2>2. gauge'[s].primary = (s = cur)
    BY <1>1, <2>1
  <2> QED
    BY <2>1, <2>2, <1>3
<1>10. StatusTellsSites'
  BY <1>0, <1>1 DEF StatusTellsSites
<1> QED
  BY <1>6, <1>7, <1>8, <1>9, <1>10 DEF Inv

\* Whatever is observed of the listed sites, promoted or not, is reported.
LEMMA InvObserve ==
  ASSUME Inv, ObserveSites
  PROVE  Inv'
<1>1. PICK listed \in [spec -> Observation] :
        LET buffer == [s \in Sites |-> IF s \in spec THEN listed[s] ELSE Unlisted]
        IN  Report(buffer) \/ ReportPromotion(buffer)
  BY DEF ObserveSites
<1> DEFINE buffer == [s \in Sites |-> IF s \in spec THEN listed[s] ELSE Unlisted]
<1>2. spec \in SUBSET Sites
  BY DEF Inv, Shape
<1>3. BufferOf(buffer, spec)
  BY <1>2, ObservationRead, UnlistedRead DEF BufferOf
<1> HIDE DEF buffer
<1>4. CASE Report(buffer)
  BY <1>3, <1>4, InvReport
<1>5. CASE ReportPromotion(buffer)
  <2>1. PICK demoted \in spec, promoted \in spec :
          Report(applyPromotionEffect(buffer, demoted, promoted))
    BY <1>5 DEF ReportPromotion
  <2>2. BufferOf(applyPromotionEffect(buffer, demoted, promoted), spec)
    BY <1>2, <1>3, EffectKeepsPositions
  <2> QED
    BY <2>1, <2>2, InvReport
<1> QED
  BY <1>1, <1>4, <1>5 DEF buffer

\* The status a reconcile computes agrees with itself.
LEMMA ComputedTellsSites ==
  ASSUME Inv, status' = Computed
  PROVE  StatusTellsSites'
<1> DEFINE sites == [s \in ha |-> toSiteStatus(obs[s])]
           serving == {s \in DOMAIN sites : sites[s].role = "Primary" /\ sites[s].ready}
           C == primaryReadyCandidates(obs)
<1>1. ha \subseteq Sites /\ BufferOf(obs, ha)
  BY DEF Inv, Shape
<1>2. \A s \in ha : /\ sites[s].role = "Primary" /\ sites[s].ready <=> ReadyPrimary(obs[s])
                    /\ sites[s].reachable = obs[s].Reachable
                    /\ sites[s].ready = obs[s].Ready
  BY <1>1 DEF BufferOf, Observations, toSiteStatus, ReadyPrimary
<1>3. serving = C
  BY <1>1, <1>2 DEF primaryReadyCandidates, ReadyPrimary, BufferOf
<1>4. /\ status'.primary = IF currentPrimary # NoSite THEN currentPrimary ELSE status.primary
      /\ status'.sites = sites /\ status'.available = (currentPrimary # NoSite)
      /\ status'.splitBrain = detectSplitBrain(obs)
      /\ status'.degraded = \E s \in ha : ~obs[s].Reachable \/ ~obs[s].Ready
  BY DEF Computed
<1>5. status'.available => serving = {status'.primary}
  <2> SUFFICES ASSUME currentPrimary # NoSite PROVE C = {currentPrimary}
    BY <1>3, <1>4
  <2>1. currentPrimary \in Sites
    BY SpecAssumption, DecisionMeaning DEF currentPrimary
  <2> QED
    BY <2>1, DecisionMeaning DEF currentPrimary
<1>6. status'.splitBrain <=> \E s, t \in serving : s # t
  <2>1. detectSplitBrain(obs) <=> \E s, t \in C : s # t
    BY DEF detectSplitBrain
  <2> HIDE DEF serving, C
  <2> QED
    BY <2>1, <1>3, <1>4
<1>7. ~status'.degraded => \A s \in DOMAIN sites : sites[s].reachable /\ sites[s].ready
  BY <1>2, <1>4
<1> HIDE DEF sites
<1> QED
  BY <1>4, <1>5, <1>6, <1>7 DEF StatusTellsSites

\* The end of a reconcile, with or without a new status.
LEMMA InvReturn ==
  ASSUME Inv, UpdateStatus \/ UpdateConflicts \/ UpdateFails
  PROVE  Inv'
<1>1. Return /\ (status' = Computed \/ status' = status)
  BY DEF UpdateStatus, UpdateConflicts, UpdateFails
<1>2. StatusTellsSites'
  <2>1. CASE status' = Computed
    BY <2>1, ComputedTellsSites
  <2>2. CASE status' = status
    BY <2>2 DEF Inv, StatusTellsSites
  <2> QED
    BY <1>1, <2>1, <2>2
<1>3. /\ pc' = "idle" /\ ha' = {} /\ obs' = [s \in Sites |-> Unlisted]
      /\ UNCHANGED <<spec, fresh, gauge, lsnInfo, truth>>
  BY <1>1 DEF Return
<1>4. Shape'
  BY <1>3, EmptyBuffer DEF Inv, Shape
<1>5. LagIsDistance'
  BY <1>3 DEF LagIsDistance
<1>6. OneSeriesPerSite' /\ PrimaryShown'
  BY <1>3 DEF Inv, OneSeriesPerSite, PrimaryShown, Place
<1> QED
  BY <1>2, <1>4, <1>5, <1>6 DEF Inv

\* An edit of the spec takes its claim from what is shown, nothing else.
LEMMA InvEdit ==
  ASSUME Inv, NEW S \in SUBSET Sites, EditSpec(S)
  PROVE  Inv'
<1>1. /\ spec' = S /\ fresh' = FALSE /\ UNCHANGED <<ha, obs, pc, gauge, lsnInfo>>
      /\ status' = NewStatus \/ status' = status
  BY DEF EditSpec
<1>2. Shape'
  BY <1>1 DEF Inv, Shape
<1>3. LagIsDistance'
  BY <1>1 DEF Inv, LagIsDistance, currentPrimary, Place
<1>4. OneSeriesPerSite' /\ PrimaryShown'
  BY <1>1 DEF Inv, OneSeriesPerSite, PrimaryShown, Place
<1>5. StatusTellsSites'
  BY <1>1 DEF Inv, StatusTellsSites, NewStatus
<1> QED
  BY <1>2, <1>3, <1>4, <1>5 DEF Inv

\* The invariant holds after every step of Reconcile and of its surroundings.
THEOREM InvAlways == Spec => []Inv
<1>1. Inv /\ [Next]_vars => Inv'
  <2> SUFFICES ASSUME Inv, [Next]_vars PROVE Inv'
    OBVIOUS
  <2>1. CASE UNCHANGED vars
    <3>1. Shape' /\ PrimaryShown' /\ StatusTellsSites'
      BY <2>1 DEF vars, Inv, Shape, PrimaryShown, StatusTellsSites
    <3>2. LagIsDistance' /\ OneSeriesPerSite'
      BY <2>1 DEF vars, Inv, LagIsDistance, OneSeriesPerSite, currentPrimary, Place
    <3> QED
      BY <3>1, <3>2 DEF Inv
  <2> QED
    BY <2>1, InvObserve, InvReturn, InvEdit DEF Next, FindNothing
<1> QED
  BY <1>1, InvInit, PTL DEF Spec

(***************************************************************************)
(* cnpg_ha_replica_lag_bytes is the distance in the WAL for words of any   *)
(* width: the unsigned difference of publishMetrics never wraps around.    *)
(***************************************************************************)
THEOREM LagIsAlwaysDistance == Spec => []LagIsDistance
BY InvAlways, PTL DEF Inv

(***************************************************************************)
(* SetSiteLSNInfo and ClearSiteLSNInfo keep one series per site, with the  *)
(* position the other series shows.                                        *)
(***************************************************************************)
THEOREM AlwaysOneSeries == Spec => []OneSeriesPerSite
BY InvAlways, PTL DEF Inv

(***************************************************************************)
(* The series publishMetrics sets for the listed sites show the one ready  *)
(* primary that was seen, or none, whatever the status says.               *)
(***************************************************************************)
THEOREM AlertAlwaysCounts == Spec => []AlertCountsPrimaries
<1>1. Inv => AlertCountsPrimaries
  <2> SUFFICES ASSUME Inv, fresh
               PROVE {s \in spec : gauge[s].primary = TRUE} =
                       IF \E p \in Sites : truth = {p} THEN truth ELSE {}
    BY DEF AlertCountsPrimaries
  <2>1. {s \in spec : gauge[s].primary = TRUE} = {s \in spec : truth = {s}}
    BY DEF Inv, PrimaryShown
  <2>2. truth \subseteq spec /\ spec \subseteq Sites
    BY DEF Inv, PrimaryShown, Shape
  <2> QED
    BY <2>1, <2>2
<1> QED
  BY <1>1, InvAlways, PTL

(***************************************************************************)
(* The conditions of setConditions never contradict status.sites.          *)
(***************************************************************************)
THEOREM StatusAlwaysTellsSites == Spec => []StatusTellsSites
BY InvAlways, PTL DEF Inv

(***************************************************************************)
(* Sites that leave the spec.  GaugeStale refutes AlertIgnoresRemovedSites *)
(* and this is its only cause: the site that is shown as the primary       *)
(* leaves the spec, or the HACluster is deleted while it is.               *)
(***************************************************************************)
ShownStaysListed == \A s \in spec \ spec' : gauge[s].primary # TRUE

UnlistedNotShown == \A s \in Sites \ spec : gauge[s].primary # TRUE

LEMMA UnlistedNotShownNext ==
  ASSUME Inv, UnlistedNotShown, [Next]_vars, ShownStaysListed PROVE UnlistedNotShown'
<1>1. gauge \in [Sites -> Series]
  BY DEF Inv, Shape
<1>2. ASSUME NEW buffer, Report(buffer) PROVE UnlistedNotShown'
  <2>1. spec' = spec /\ \A s \in Sites \ spec : gauge'[s] = gauge[s]
    BY <1>2 DEF Report, publishMetrics
  <2> QED BY <2>1 DEF UnlistedNotShown
<1>3. CASE ObserveSites
  <2>1. \E buffer : Report(buffer)
    BY <1>3 DEF ObserveSites, ReportPromotion
  <2> QED BY <1>2, <2>1
<1>4. CASE UpdateStatus \/ UpdateConflicts \/ UpdateFails
  BY <1>4 DEF UpdateStatus, UpdateConflicts, UpdateFails, Return, UnlistedNotShown
<1>5. ASSUME NEW S \in SUBSET Sites, EditSpec(S) PROVE UnlistedNotShown'
  <2>1. spec' = S /\ gauge' = gauge
    BY <1>5 DEF EditSpec
  <2> QED BY <2>1 DEF UnlistedNotShown, ShownStaysListed
<1>6. CASE FindNothing \/ UNCHANGED vars
  BY <1>6 DEF FindNothing, vars, UnlistedNotShown
<1> QED BY <1>3, <1>4, <1>5, <1>6 DEF Next

(***************************************************************************)
(* If the site shown as the primary is never taken from the spec, the      *)
(* alert adds up the truth over all series that exist, those of removed    *)
(* sites included, which publishMetrics never clears.                      *)
(***************************************************************************)
THEOREM OnlyShownPrimaryMisleads ==
  Spec /\ [][ShownStaysListed]_vars => []AlertIgnoresRemovedSites
<1>1. ASSUME Init PROVE UnlistedNotShown
  <2>1. \A s \in Sites : gauge[s].primary = Unknown
    BY <1>1 DEF Init, NoSeries
  <2>2. Unknown # TRUE
    BY WordAssumption
  <2> QED BY <2>1, <2>2 DEF UnlistedNotShown
<1>2. Inv /\ UnlistedNotShown /\ [Next]_vars /\ [ShownStaysListed]_vars
        => UnlistedNotShown'
  <2>1. UNCHANGED vars /\ UnlistedNotShown => UnlistedNotShown'
    BY DEF vars, UnlistedNotShown
  <2> QED BY <2>1, UnlistedNotShownNext
<1>3. Inv /\ UnlistedNotShown => AlertIgnoresRemovedSites
  <2> SUFFICES ASSUME Inv, UnlistedNotShown, fresh, NEW p \in Sites, truth = {p}
               PROVE  {s \in Sites : gauge[s].primary = TRUE} = {p}
    BY DEF AlertIgnoresRemovedSites
  <2>1. p \in spec /\ spec \subseteq Sites
    BY DEF Inv, PrimaryShown, Shape
  <2>2. \A s \in Sites : gauge[s].primary = TRUE <=> s = p
    BY <2>1 DEF Inv, PrimaryShown, UnlistedNotShown
  <2> QED BY <2>2
<1> QED BY <1>1, <1>2, <1>3, InvAlways, PTL DEF Spec
=============================================================================
