-------------------------- MODULE ThreatMemory_proofs --------------------------
(***************************************************************************)
(* What holds of a soldier's memory for every set of enemies, every        *)
(* tuning that the assumptions allow and every order of stimuli; and that  *)
(* the memory implements ThreatBelief.                                     *)
(***************************************************************************)
EXTENDS ThreatMemory, TLAPS

----------------------------------------------------------------------------
(* The inductive invariant.                                                *)

\* Whom the soldier never sensed itself stays below the threshold of certainty.
Hearsay(m) ==
  ~m.own => /\ m.awareness < ConfirmedThreshold
            /\ m.level # "Confirmed"
            /\ m.confidence <= SquadSharedConfidence

\* While a target is silent its awareness fades, and its memory ages, with every update.
Fading(m) ==
  /\ AwarenessDecay > 0 => (m.awareness = 0 \/ m.awareness + m.silent <= Full)
  /\ m.unseen = MemoryLifetime + 1 \/ m.silent <= m.unseen

Sound(m) ==
  /\ m \in Memory
  /\ Hearsay(m)
  /\ m.place <= m.seen
  /\ Fading(m)

\* What keeps an entry in the memory.
Recent(m) == m.silent = 0 \/ m.awareness > 0 \/ m.unseen <= MemoryLifetime

IInv ==
  /\ TypeOK
  /\ \A t \in Target : Sound(memory[t])
  /\ \A t \in remembered : Recent(memory[t])
  /\ ListenersKnowPrimary

----------------------------------------------------------------------------
(* Lemmas about the operators.                                             *)

\* The constants of the scale and the times, spelt out for the provers.
LEMMA ScaleFacts ==
  /\ Full \in Nat /\ Full > 0
  /\ SuspiciousThreshold \in 0 .. Full /\ ConfirmedThreshold \in 0 .. Full
  /\ AwarenessBandHysteresis \in 0 .. Full
  /\ AwarenessDecay \in 0 .. Full /\ ConfidenceDecay \in 0 .. Full
  /\ SquadSharedConfidence \in 0 .. Full /\ SquadSharedAwareness \in 0 .. Full
  /\ DamageConfidence \in 0 .. Full /\ NoiseConfidence \in 0 .. Full
  /\ SquadSharedAwareness < ConfirmedThreshold
  /\ MemoryLifetime \in Nat /\ Old \in Nat /\ MinTargetHold \in Nat
  BY ScaleAssumption, TimeAssumption

\* A new entry is sound.
LEMMA BlankSound == Sound(Blank)
  BY ScaleFacts, ScoreAssumption DEF Sound, Hearsay, Fading, Blank, Memory, Level

\* An entry with one field replaced is an entry.
LEMMA FieldReplaced ==
  ASSUME NEW m \in Memory
  PROVE  /\ \A v \in BOOLEAN : [m EXCEPT !.visible = v] \in Memory
         /\ \A v \in BOOLEAN : [m EXCEPT !.inView = v] \in Memory
         /\ \A v \in BOOLEAN : [m EXCEPT !.own = v] \in Memory
         /\ \A v \in 0 .. Full : [m EXCEPT !.awareness = v] \in Memory
         /\ \A v \in 0 .. Full : [m EXCEPT !.confidence = v] \in Memory
         /\ \A v \in Level : [m EXCEPT !.level = v] \in Memory
         /\ \A v \in 0 .. MemoryLifetime + 1 : [m EXCEPT !.unseen = v] \in Memory
         /\ \A v \in 0 .. Old : [m EXCEPT !.seen = v] \in Memory
         /\ \A v \in 0 .. Old : [m EXCEPT !.shared = v] \in Memory
         /\ \A v \in 0 .. Old : [m EXCEPT !.place = v] \in Memory
         /\ \A v \in Danger : [m EXCEPT !.danger = v] \in Memory
         /\ \A v \in 0 .. Full + MemoryLifetime : [m EXCEPT !.silent = v] \in Memory
  BY DEF Memory

\* The values that entries are reset to.
LEMMA Resets ==
  /\ 0 \in 0 .. Full /\ 0 \in 0 .. Old /\ 0 \in 0 .. MemoryLifetime + 1
  /\ 0 \in 0 .. Full + MemoryLifetime /\ Full \in 0 .. Full
  /\ TRUE \in BOOLEAN /\ FALSE \in BOOLEAN
  BY ScaleFacts

\* The fields of an entry.
LEMMA EntryFields ==
  ASSUME NEW m \in Memory
  PROVE  /\ m.visible \in BOOLEAN /\ m.own \in BOOLEAN /\ m.level \in Level
         /\ m.awareness \in 0 .. Full /\ m.confidence \in 0 .. Full
         /\ m.unseen \in 0 .. MemoryLifetime + 1 /\ m.silent \in 0 .. Full + MemoryLifetime
         /\ m.seen \in 0 .. Old /\ m.shared \in 0 .. Old /\ m.place \in 0 .. Old
  BY DEF Memory

\* A sighting is the soldier's own, and starts everything afresh.
LEMMA SawSound ==
  ASSUME NEW m, Sound(m), NEW rate \in Rate, NEW inView \in BOOLEAN
  PROVE  Sound(Saw(m, rate, inView)) /\ Saw(m, rate, inView).silent = 0
<1> DEFINE aw == UpTo(Full, m.awareness + rate)
           cf == AtLeast(aw, m.confidence)
           x  == Saw(m, rate, inView)
<1>1. m \in Memory /\ rate \in Nat
  BY ScaleAssumption DEF Sound
<1>2. aw \in 0 .. Full /\ cf \in 0 .. Full
  BY <1>1, EntryFields, ScaleFacts DEF UpTo, AtLeast
<1>3. x \in Memory
  BY <1>1, <1>2, FieldReplaced, Resets, Zenon DEF Saw
<1>4. /\ x.awareness = aw /\ x.own /\ x.silent = 0
      /\ x.place = 0 /\ x.seen = 0 /\ x.unseen = 0
  BY <1>1, SMT DEF Memory, Saw
<1> HIDE DEF aw, x
<1>5. Sound(x) /\ x.silent = 0
  BY <1>2, <1>3, <1>4, ScaleFacts DEF Sound, Hearsay, Fading
<1> QED
  BY <1>5 DEF x

\* So does a hit, except that it is no sighting.
LEMMA HurtSound ==
  ASSUME NEW m, Sound(m)
  PROVE  /\ Sound([Hurt(m) EXCEPT !.silent = 0])
         /\ Recent([Hurt(m) EXCEPT !.silent = 0])
         /\ [Hurt(m) EXCEPT !.silent = 0].own
         /\ [Hurt(m) EXCEPT !.silent = 0].level = m.level
<1> DEFINE cf == AtLeast(DamageConfidence, m.confidence)
           x  == [Hurt(m) EXCEPT !.silent = 0]
<1>1. m \in Memory /\ cf \in 0 .. Full
  BY EntryFields, ScaleFacts DEF Sound, AtLeast
<1>2. x \in Memory
  BY <1>1, FieldReplaced, Resets, Zenon DEF Hurt
<1>3. /\ x.own /\ x.silent = 0 /\ x.level = m.level /\ x.awareness = Full
      /\ x.place = 0 /\ x.seen = m.seen /\ x.unseen = 0
  BY <1>1, SMT DEF Memory, Hurt
<1> HIDE DEF x
<1>4. Sound(x) /\ Recent(x) /\ x.own /\ x.level = m.level
  BY <1>1, <1>2, <1>3, EntryFields, ScaleFacts DEF Sound, Hearsay, Fading, Recent
<1> QED
  BY <1>4 DEF x

\* And a noise.
LEMMA HeardSound ==
  ASSUME NEW m, Sound(m), NEW impulse \in Impulse
  PROVE  /\ Sound([Heard(m, impulse) EXCEPT !.silent = 0])
         /\ Recent([Heard(m, impulse) EXCEPT !.silent = 0])
         /\ [Heard(m, impulse) EXCEPT !.silent = 0].own
         /\ [Heard(m, impulse) EXCEPT !.silent = 0].level = m.level
<1> DEFINE aw == UpTo(Full, m.awareness + impulse)
           cf == AtLeast(NoiseConfidence, m.confidence)
           x  == [Heard(m, impulse) EXCEPT !.silent = 0]
<1>1. m \in Memory /\ impulse \in Nat
  BY ScaleAssumption DEF Sound
<1>2. aw \in 0 .. Full /\ cf \in 0 .. Full
  BY <1>1, EntryFields, ScaleFacts DEF UpTo, AtLeast
<1> DEFINE seen   == [m EXCEPT !.awareness = aw, !.own = TRUE, !.silent = 0]
           unseen == [m EXCEPT !.awareness = aw, !.own = TRUE, !.place = 0, !.confidence = cf,
                              !.silent = 0]
<1>3. x = seen \/ x = unseen
  <2>1. CASE m.visible
    <3>1. Heard(m, impulse) = [m EXCEPT !.awareness = aw, !.own = TRUE]
      BY <2>1 DEF Heard
    <3> QED
      BY <3>1, Zenon
  <2>2. CASE ~m.visible
    <3>1. [m EXCEPT !.awareness = aw, !.own = TRUE].confidence = m.confidence
      BY <1>1, SMT DEF Memory
    <3>2. Heard(m, impulse) =
            [m EXCEPT !.awareness = aw, !.own = TRUE, !.place = 0, !.confidence = cf]
      BY <2>2, <3>1 DEF Heard
    <3> QED
      BY <3>2, Zenon
  <2> QED
    BY <2>1, <2>2
<1>4. /\ seen \in Memory /\ unseen \in Memory
      /\ \A y \in {seen, unseen} :
            /\ y.own /\ y.silent = 0 /\ y.level = m.level /\ y.awareness = aw
            /\ y.place \in {0, m.place} /\ y.seen = m.seen /\ y.unseen = m.unseen
  <2> HIDE DEF aw, cf
  <2>1. seen \in Memory /\ unseen \in Memory
    BY <1>1, <1>2, FieldReplaced, Resets, Zenon
  <2>2. /\ seen.own /\ seen.silent = 0 /\ seen.level = m.level /\ seen.awareness = aw
        /\ seen.place = m.place /\ seen.seen = m.seen /\ seen.unseen = m.unseen
    BY <1>1, SMT DEF Memory
  <2>3. /\ unseen.own /\ unseen.silent = 0 /\ unseen.level = m.level /\ unseen.awareness = aw
        /\ unseen.place = 0 /\ unseen.seen = m.seen /\ unseen.unseen = m.unseen
    BY <1>1, SMT DEF Memory
  <2> HIDE DEF seen, unseen
  <2> QED
    BY <2>1, <2>2, <2>3
<1> HIDE DEF x, aw, cf, seen, unseen
<1>5. /\ x \in Memory /\ x.own /\ x.silent = 0 /\ x.level = m.level /\ x.awareness = aw
      /\ x.place \in {0, m.place} /\ x.seen = m.seen /\ x.unseen = m.unseen
  BY <1>3, <1>4
<1>6. Sound(x) /\ Recent(x) /\ x.own /\ x.level = m.level
  BY <1>1, <1>2, <1>5, EntryFields, ScaleFacts DEF Sound, Hearsay, Fading, Recent
<1> QED
  BY <1>6 DEF x

\* The three rules of ReceiveSharedThreat: a report that is not outdated leaves what the
\* soldier knows sound.
LEMMA ToldSound ==
  ASSUME NEW m, Sound(m), NEW age \in 0 .. Old - 1, NEW reported \in Reported,
         ~Outdated(m, age)
  PROVE  /\ Sound([Told(m, age, reported) EXCEPT !.silent = 0])
         /\ Recent([Told(m, age, reported) EXCEPT !.silent = 0])
         /\ [Told(m, age, reported) EXCEPT !.silent = 0].own = m.own
         /\ [Told(m, age, reported) EXCEPT !.silent = 0].level = m.level
<1> DEFINE aw == AtLeast(SquadSharedAwareness, m.awareness)
           cf == AtLeast(Trust(reported), m.confidence)
           x  == [Told(m, age, reported) EXCEPT !.silent = 0]
<1>1. m \in Memory /\ reported \in 0 .. Full /\ age \in 0 .. Old
  BY ScaleAssumption, ScaleFacts DEF Sound
<1>2. Trust(reported) \in 0 .. Full /\ Trust(reported) <= SquadSharedConfidence
  BY <1>1, ScaleFacts DEF Trust, UpTo
<1>3. /\ aw \in 0 .. Full /\ aw \in {SquadSharedAwareness, m.awareness}
      /\ cf \in 0 .. Full /\ cf \in {Trust(reported), m.confidence}
  BY <1>1, <1>2, EntryFields, ScaleFacts DEF AtLeast
<1>4. x \in Memory
  BY <1>1, <1>3, FieldReplaced, Resets, Zenon DEF Told
<1>5. /\ x.own = m.own /\ x.silent = 0 /\ x.level = m.level /\ x.awareness = aw
      /\ x.confidence = cf /\ x.place = age /\ x.seen = m.seen /\ x.unseen = m.unseen
  BY <1>1, SMT DEF Memory, Told
<1>6. age <= m.seen
  BY <1>1, EntryFields, ScaleFacts DEF Outdated
<1> HIDE DEF x, aw, cf
<1>7. Sound(x) /\ Recent(x) /\ x.own = m.own /\ x.level = m.level
  BY <1>1, <1>2, <1>3, <1>4, <1>5, <1>6, EntryFields, ScaleFacts
     DEF Sound, Hearsay, Fading, Recent
<1> QED
  BY <1>7 DEF x

\* A stimulus that tells nothing leaves an entry sound.
LEMMA StillSound ==
  ASSUME NEW m, Sound(m)
  PROVE  /\ Sound([m EXCEPT !.silent = 0]) /\ Recent([m EXCEPT !.silent = 0])
         /\ [m EXCEPT !.silent = 0].own = m.own /\ [m EXCEPT !.silent = 0].level = m.level
<1> DEFINE x == [m EXCEPT !.silent = 0]
<1>1. m \in Memory
  BY DEF Sound
<1>2. x \in Memory
  BY <1>1, FieldReplaced, Resets, Zenon
<1>3. /\ x.own = m.own /\ x.silent = 0 /\ x.level = m.level /\ x.awareness = m.awareness
      /\ x.confidence = m.confidence /\ x.place = m.place /\ x.seen = m.seen
      /\ x.unseen = m.unseen
  BY <1>1, SMT DEF Memory
<1> HIDE DEF x
<1>4. Sound(x) /\ Recent(x) /\ x.own = m.own /\ x.level = m.level
  BY <1>1, <1>2, <1>3, EntryFields, ScaleFacts DEF Sound, Hearsay, Fading, Recent
<1> QED
  BY <1>4 DEF x

\* Ageing keeps the order of the observations.
LEMMA AgedSound ==
  ASSUME NEW m, Sound(m)
  PROVE  Sound(Aged(m)) /\ ~Aged(m).visible
<1> DEFINE older(a) == UpTo(Old, a + 1)
           x == Aged(m)
<1>1. m \in Memory
  BY DEF Sound
<1>2. /\ older(m.seen) \in 0 .. Old /\ older(m.shared) \in 0 .. Old
      /\ older(m.place) \in 0 .. Old
      /\ m.place <= m.seen => older(m.place) <= older(m.seen)
  BY <1>1, EntryFields, ScaleFacts DEF UpTo
<1>3. x \in Memory
  BY <1>1, <1>2, FieldReplaced, Resets, Zenon DEF Aged
<1>4. /\ ~x.visible /\ x.own = m.own /\ x.silent = m.silent /\ x.level = m.level
      /\ x.awareness = m.awareness /\ x.confidence = m.confidence
      /\ x.place = older(m.place) /\ x.seen = older(m.seen) /\ x.unseen = m.unseen
  BY <1>1, SMT DEF Memory, Aged
<1> HIDE DEF x, older
<1>5. Sound(x) /\ ~x.visible
  BY <1>2, <1>3, <1>4 DEF Sound, Hearsay, Fading
<1> QED
  BY <1>5 DEF x

\* Fading takes a unit of awareness at least, if there is a decay at all.
LEMMA FadedSound ==
  ASSUME NEW m, Sound(m), ~m.visible
  PROVE  Sound(Faded(m)) /\ ~Faded(m).visible
<1> DEFINE un == UpTo(MemoryLifetime + 1, m.unseen + 1)
           aw == AtLeast(0, m.awareness - AwarenessDecay)
           cf == AtLeast(0, m.confidence - ConfidenceDecay)
           si == UpTo(Full + MemoryLifetime, m.silent + 1)
           x  == Faded(m)
<1>1. m \in Memory
  BY DEF Sound
<1>2. /\ un \in 0 .. MemoryLifetime + 1 /\ (un = MemoryLifetime + 1 \/ un = m.unseen + 1)
      /\ aw \in 0 .. Full /\ (aw = 0 \/ aw = m.awareness - AwarenessDecay)
      /\ cf \in 0 .. Full /\ cf <= m.confidence
      /\ si \in 0 .. Full + MemoryLifetime /\ si <= m.silent + 1
  BY <1>1, EntryFields, ScaleFacts DEF UpTo, AtLeast
<1>3. x = [m EXCEPT !.unseen = un, !.awareness = aw, !.confidence = cf, !.silent = si]
  BY Zenon DEF Faded
<1>4. [m EXCEPT !.unseen = un, !.awareness = aw, !.confidence = cf, !.silent = si] \in Memory
  BY <1>1, <1>2, FieldReplaced, Zenon
<1>5. /\ x.visible = m.visible /\ x.own = m.own /\ x.silent = si /\ x.level = m.level
      /\ x.awareness = aw /\ x.confidence = cf
      /\ x.place = m.place /\ x.seen = m.seen /\ x.unseen = un
  BY <1>1, <1>3, SMT DEF Memory
<1> HIDE DEF x, un, aw, cf, si
<1>6. Hearsay(x)
  BY <1>1, <1>2, <1>5, EntryFields, ScaleFacts DEF Sound, Hearsay
<1>7. Fading(x)
  BY <1>1, <1>2, <1>5, EntryFields, ScaleFacts DEF Sound, Fading
<1>8. Sound(x) /\ ~x.visible
  BY <1>3, <1>4, <1>5, <1>6, <1>7 DEF Sound
<1> QED
  BY <1>8 DEF x

\* The band of awareness that is below the threshold of certainty is not "Confirmed".
LEMMA BandSound ==
  ASSUME NEW m, Sound(m), NEW d \in Danger
  PROVE  /\ Sound([m EXCEPT !.level = Band(m), !.danger = d])
         /\ Recent(m) => Recent([m EXCEPT !.level = Band(m), !.danger = d])
<1> DEFINE x == [m EXCEPT !.level = Band(m), !.danger = d]
<1>1. m \in Memory
  BY DEF Sound
<1>2. Band(m) \in Level /\ (~m.own => Band(m) # "Confirmed")
  BY <1>1, EntryFields, ScaleFacts DEF Sound, Hearsay, Band, Level
<1>3. x \in Memory
  BY <1>1, <1>2, FieldReplaced, Zenon
<1>4. /\ x.own = m.own /\ x.silent = m.silent /\ x.level = Band(m)
      /\ x.awareness = m.awareness /\ x.confidence = m.confidence
      /\ x.place = m.place /\ x.seen = m.seen /\ x.unseen = m.unseen
  BY <1>1, SMT DEF Memory
<1> HIDE DEF x
<1>5. Sound(x) /\ (Recent(m) => Recent(x))
  BY <1>2, <1>3, <1>4 DEF Sound, Hearsay, Fading, Recent
<1> QED
  BY <1>5 DEF x

\* The capacity trim keeps some of what it is given.
LEMMA TrimmedKeeps ==
  ASSUME NEW R, NEW mem, NEW K \in Trimmed(R, mem)
  PROVE  K \subseteq R
  BY DEF Trimmed

\* Nobody is selected but a candidate: somebody remembered, and not "Unaware".
LEMMA SelectedCandidate ==
  ASSUME NEW K, NEW mem, NEW value, NEW h, NEW x \in Selections(K, mem, value, h)
  PROVE  x = None \/ (x \in K /\ mem[x].level # "Unaware")
  BY DEF Selections, Candidates

----------------------------------------------------------------------------
(* The invariant.                                                          *)

\* A new memory is empty, and nobody has been told anything.
LEMMA InitInv == Init => IInv
<1> SUFFICES ASSUME Init PROVE IInv
  OBVIOUS
<1>1. Blank \in Memory
  BY BlankSound DEF Sound
<1>2. TypeOK
  BY <1>1, ScaleFacts DEF Init, TypeOK
<1>3. \A t \in Target : Sound(memory[t])
  BY BlankSound DEF Init
<1> QED
  BY <1>2, <1>3 DEF Init, IInv, ListenersKnowPrimary

\* A stimulus that leaves one entry sound leaves the memory sound.
LEMMA LearnInv ==
  ASSUME IInv, NEW t \in Target, NEW m, Learn(t, m),
         Sound([m EXCEPT !.silent = 0]), Recent([m EXCEPT !.silent = 0])
  PROVE  IInv'
<1> DEFINE x == [m EXCEPT !.silent = 0]
<1>1. /\ remembered' = remembered \cup {t} /\ memory' = [memory EXCEPT ![t] = x]
      /\ UNCHANGED <<gone, primary, held, announced>>
  BY DEF Learn, focusVars
<1>2. x \in Memory /\ Sound(x) /\ Recent(x)
  BY DEF Sound
<1> HIDE DEF x
<1>3. memory \in [Target -> Memory]
  BY DEF IInv, TypeOK
<1>4. memory'[t] = x /\ \A u \in Target \ {t} : memory'[u] = memory[u]
  BY <1>1, <1>3
<1>5. TypeOK'
  BY <1>1, <1>2, <1>3, <1>4 DEF IInv, TypeOK
<1>6. \A u \in Target : Sound(memory'[u])
  BY <1>2, <1>4 DEF IInv
<1>7. \A u \in remembered' : Recent(memory'[u])
  BY <1>1, <1>2, <1>4 DEF IInv, TypeOK
<1>8. (\A u \in Target : Sound(memory[u]))'
  BY <1>6 DEF Sound, Hearsay, Fading
<1>9. (\A u \in remembered : Recent(memory[u]))'
  BY <1>7 DEF Recent
<1> QED
  BY <1>1, <1>5, <1>8, <1>9 DEF IInv, ListenersKnowPrimary

\* Each operation keeps the invariant: the stimuli by LearnInv, an update by what it leaves.
LEMMA ReportDamageFromInv ==
  ASSUME IInv, NEW t \in Target, ReportDamageFrom(t)
  PROVE  IInv'
<1>1. Sound(memory[t])
  BY DEF IInv
<1> QED
  BY <1>1, HurtSound, LearnInv DEF ReportDamageFrom

LEMMA ReportNoiseInv ==
  ASSUME IInv, NEW t \in Target, NEW impulse \in Impulse, ReportNoise(t, impulse)
  PROVE  IInv'
<1>1. Sound(memory[t])
  BY DEF IInv
<1> QED
  BY <1>1, HeardSound, LearnInv DEF ReportNoise

LEMMA ReceiveSharedThreatInv ==
  ASSUME IInv, NEW t \in Target, NEW age \in 0 .. Old - 1, NEW reported \in Reported,
         ReceiveSharedThreat(t, age, reported)
  PROVE  IInv'
<1>1. Sound(memory[t])
  BY DEF IInv
<1>2. CASE Outdated(memory[t], age)
  BY <1>1, <1>2, StillSound, LearnInv DEF ReceiveSharedThreat
<1>3. CASE ~Outdated(memory[t], age)
  BY <1>1, <1>3, ToldSound, LearnInv DEF ReceiveSharedThreat
<1> QED
  BY <1>2, <1>3

\* A forgotten entry is a new one.
LEMMA ForgetTargetInv ==
  ASSUME IInv, NEW t \in Target, ForgetTarget(t)
  PROVE  IInv'
<1>1. memory \in [Target -> Memory] /\ Blank \in Memory
  BY BlankSound DEF IInv, TypeOK, Sound
<1>2. memory'[t] = Blank /\ \A u \in Target \ {t} : memory'[u] = memory[u]
  BY <1>1 DEF ForgetTarget
<1>3. TypeOK'
  BY <1>1, <1>2 DEF ForgetTarget, AfterForgetting, IInv, TypeOK
<1>4. \A u \in Target : Sound(memory'[u])
  BY <1>2, BlankSound DEF IInv
<1>5. \A u \in remembered' : Recent(memory'[u])
  BY <1>2 DEF IInv, TypeOK, ForgetTarget
<1>6. (\A u \in Target : Sound(memory[u]))' /\ (\A u \in remembered : Recent(memory[u]))'
  BY <1>4, <1>5 DEF Sound, Hearsay, Fading, Recent
<1>7. ListenersKnowPrimary'
  BY DEF ForgetTarget, AfterForgetting, IInv, ListenersKnowPrimary
<1> QED
  BY <1>3, <1>6, <1>7 DEF IInv

\* A target that is destroyed changes no entry.
LEMMA TargetDestroyedInv ==
  ASSUME IInv, NEW t \in Target, TargetDestroyed(t)
  PROVE  IInv'
<1>1. UNCHANGED <<remembered, memory, held, announced>>
  BY DEF TargetDestroyed
<1>2. TypeOK'
  BY <1>1 DEF TargetDestroyed, IInv, TypeOK
<1>3. (\A u \in Target : Sound(memory[u]))' /\ (\A u \in remembered : Recent(memory[u]))'
  BY <1>1 DEF IInv, Sound, Hearsay, Fading, Recent
<1>4. ListenersKnowPrimary'
  BY NoneAssumption DEF TargetDestroyed, IInv, ListenersKnowPrimary
<1> QED
  BY <1>2, <1>3, <1>4 DEF IInv

\* What an update leaves: everything that is kept was sensed now or has not faded, and the
\* primary target is somebody who is kept and believed in.
LEMMA UpdateEffects ==
  ASSUME IInv, Update
  PROVE  /\ remembered' \subseteq Target
         /\ memory' \in [Target -> Memory]
         /\ \A t \in Target \ remembered' : memory'[t] = Blank
         /\ \A t \in Target : Sound(memory'[t])
         /\ \A t \in remembered' : Recent(memory'[t])
         /\ primary' = None \/ (primary' \in remembered' /\ memory'[primary'].level # "Unaware")
         /\ held' \in 0 .. MinTargetHold
         /\ announced' = IF primary' # primary THEN primary' ELSE announced
         /\ gone' = gone
<1>1. PICK seen \in SUBSET Present : \E rate \in [seen -> Rate], inView \in [seen -> BOOLEAN] :
        UpdatePerception(seen, rate, inView)
  BY DEF Update
<1>2. PICK rate \in [seen -> Rate], inView \in [seen -> BOOLEAN] :
        UpdatePerception(seen, rate, inView)
  BY <1>1
<1> DEFINE after == [t \in Target |->
                       IF t \in seen THEN Saw(Aged(memory[t]), rate[t], inView[t])
                       ELSE IF t \in remembered THEN Faded(Aged(memory[t])) ELSE Blank]
           left  == {t \in remembered \cup seen : Lasts(t, after[t])}
           heldFor == UpTo(MinTargetHold, held + 1)
<1>3. PICK K \in Trimmed(left, after) : \E danger \in [K -> Danger], value \in [K -> Value] :
        /\ remembered' = K
        /\ memory' = [t \in Target |->
             IF t \in K THEN [after[t] EXCEPT !.level = Band(after[t]), !.danger = danger[t]]
             ELSE Blank]
        /\ \E selected \in Selections(K, memory', value, heldFor) :
             /\ primary' = selected
             /\ held' = IF selected # primary THEN 0 ELSE heldFor
             /\ announced' = IF selected # primary THEN selected ELSE announced
  BY <1>2 DEF UpdatePerception
<1>4. PICK danger \in [K -> Danger], value \in [K -> Value] :
        /\ remembered' = K
        /\ memory' = [t \in Target |->
             IF t \in K THEN [after[t] EXCEPT !.level = Band(after[t]), !.danger = danger[t]]
             ELSE Blank]
        /\ \E selected \in Selections(K, memory', value, heldFor) :
             /\ primary' = selected
             /\ held' = IF selected # primary THEN 0 ELSE heldFor
             /\ announced' = IF selected # primary THEN selected ELSE announced
  BY <1>3
<1>5. seen \subseteq Target /\ remembered \subseteq Target
  BY DEF Present, IInv, TypeOK
<1>6. \A t \in Target : Sound(after[t])
  <2> TAKE t \in Target
  <2>1. Sound(memory[t])
    BY DEF IInv
  <2>2. Sound(Aged(memory[t])) /\ ~Aged(memory[t]).visible
    BY <2>1, AgedSound
  <2>3. CASE t \in seen
    <3>1. rate[t] \in Rate /\ inView[t] \in BOOLEAN
      BY <2>3
    <3> QED
      BY <2>2, <2>3, <3>1, SawSound
  <2>4. CASE t \notin seen /\ t \in remembered
    BY <2>2, <2>4, FadedSound
  <2>5. CASE t \notin seen /\ t \notin remembered
    BY <2>5, BlankSound
  <2> QED
    BY <2>3, <2>4, <2>5
<1>7. \A t \in left : Recent(after[t])
  <2> TAKE t \in left
  <2>1. t \in Target /\ Lasts(t, after[t])
    BY <1>5
  <2>2. Sound(memory[t])
    BY <2>1 DEF IInv
  <2>3. Sound(Aged(memory[t])) /\ ~Aged(memory[t]).visible
    BY <2>2, AgedSound
  <2>4. CASE t \in seen
    <3>1. rate[t] \in Rate /\ inView[t] \in BOOLEAN
      BY <2>4
    <3> QED
      BY <2>1, <2>3, <2>4, <3>1, SawSound DEF Recent
  <2>5. CASE t \notin seen
    <3>1. after[t] = Faded(Aged(memory[t]))
      BY <2>1, <2>5
    <3>2. ~after[t].visible
      BY <2>3, <3>1, FadedSound
    <3> HIDE DEF after
    <3> QED
      BY <2>1, <3>2 DEF Lasts, Recent
  <2> QED
    BY <2>4, <2>5
<1>8. K \subseteq left /\ K \subseteq Target
  BY <1>5, TrimmedKeeps
<1> HIDE DEF after, left
<1>9. \A t \in Target : Sound(memory'[t]) /\ (t \in K => Recent(memory'[t]))
  <2> TAKE t \in Target
  <2>1. CASE t \in K
    <3>1. danger[t] \in Danger /\ Recent(after[t]) /\ Sound(after[t])
      BY <2>1, <1>6, <1>7, <1>8
    <3> DEFINE z == [after[t] EXCEPT !.level = Band(after[t]), !.danger = danger[t]]
    <3>2. memory'[t] = z
      BY <1>4, <2>1
    <3>3. Sound(z) /\ Recent(z)
      BY <3>1, BandSound
    <3> HIDE DEF z
    <3> QED
      BY <3>2, <3>3
  <2>2. CASE t \notin K
    BY <1>4, <2>2, BlankSound
  <2> QED
    BY <2>1, <2>2
<1>10. memory' \in [Target -> Memory]
  <2>1. \A t \in Target : memory'[t] \in Memory
    BY <1>9 DEF Sound
  <2>2. memory' = [t \in Target |-> memory'[t]]
    BY <1>4
  <2> QED
    BY <2>1, <2>2
<1>11. heldFor \in 0 .. MinTargetHold
  BY ScaleFacts DEF UpTo, IInv, TypeOK
<1>12. PICK selected \in Selections(K, memory', value, heldFor) :
             /\ primary' = selected
             /\ held' = IF selected # primary THEN 0 ELSE heldFor
             /\ announced' = IF selected # primary THEN selected ELSE announced
  BY <1>4
<1>13. selected = None \/ (selected \in K /\ memory'[selected].level # "Unaware")
  BY SelectedCandidate
<1>14. gone' = gone
  BY <1>2 DEF UpdatePerception
<1>15. \A t \in Target \ K : memory'[t] = Blank
  BY <1>4
<1> HIDE DEF heldFor
<1>16. held' \in 0 .. MinTargetHold
  BY <1>11, <1>12, ScaleFacts
<1> QED
  BY <1>4, <1>8, <1>9, <1>10, <1>12, <1>13, <1>14, <1>15, <1>16

\* An update leaves the invariant, by what it leaves.
LEMMA UpdateInv ==
  ASSUME IInv, Update
  PROVE  IInv'
<1>1. TypeOK'
  BY UpdateEffects DEF IInv, TypeOK
<1>2. (\A u \in Target : Sound(memory[u]))' /\ (\A u \in remembered : Recent(memory[u]))'
  BY UpdateEffects DEF Sound, Hearsay, Fading, Recent
<1>3. ListenersKnowPrimary'
  BY UpdateEffects DEF IInv, ListenersKnowPrimary
<1> QED
  BY <1>1, <1>2, <1>3 DEF IInv

\* And so does every step.
LEMMA NextInv == IInv /\ [Next]_vars => IInv'
<1> SUFFICES ASSUME IInv, [Next]_vars PROVE IInv'
  OBVIOUS
<1>1. ASSUME NEW t \in Target, ReportDamageFrom(t) PROVE IInv'
  BY <1>1, ReportDamageFromInv
<1>2. ASSUME NEW t \in Target, NEW impulse \in Impulse, ReportNoise(t, impulse) PROVE IInv'
  BY <1>2, ReportNoiseInv
<1>3. ASSUME NEW t \in Target, NEW age \in 0 .. Old - 1, NEW reported \in Reported,
             ReceiveSharedThreat(t, age, reported)
      PROVE  IInv'
  BY <1>3, ReceiveSharedThreatInv
<1>4. ASSUME NEW t \in Target, ForgetTarget(t) PROVE IInv'
  BY <1>4, ForgetTargetInv
<1>5. ASSUME NEW t \in Target, TargetDestroyed(t) PROVE IInv'
  BY <1>5, TargetDestroyedInv
<1>6. CASE Update
  BY <1>6, UpdateInv
<1>7. CASE UNCHANGED vars
  BY <1>7 DEF vars, focusVars, IInv, TypeOK, Sound, Hearsay, Fading, Recent, ListenersKnowPrimary
<1> QED
  BY <1>1, <1>2, <1>3, <1>4, <1>5, <1>6, <1>7 DEF Next

\* Every reachable memory is sound: the entries of SoldierPerceptionComponent grow, fade and
\* age together, and hearsay is kept apart from what was sensed.
THEOREM Invariant == Spec => []IInv
<1> QED
  BY InitInv, NextInv, PTL DEF Spec

----------------------------------------------------------------------------
(* What follows.                                                           *)

\* Every variable keeps its type, and what is forgotten leaves no traces.
THEOREM TypeCorrect == Spec => []TypeOK
<1>1. IInv => TypeOK
  BY DEF IInv
<1> QED
  BY Invariant, <1>1, PTL

\* Whatever is reported, and however often: hearsay does not become certainty (rule R3 of
\* ReceiveSharedThreat with the bands of awareness).
THEOREM HearsayStaysHearsay == Spec => []HearsayIsNoCertainty
<1>1. IInv => HearsayIsNoCertainty
  BY DEF IInv, Sound, Hearsay, HearsayIsNoCertainty
<1> QED
  BY Invariant, <1>1, PTL

\* No report moves a contact back behind its last sighting (rules R1 and R2).
THEOREM SightingsAreNotOverwritten == Spec => []PlaceIsFresh
<1>1. IInv => PlaceIsFresh
  BY DEF IInv, Sound, PlaceIsFresh
<1> QED
  BY Invariant, <1>1, PTL

\* Listeners know the primary target, unless it was destroyed.
THEOREM ListenersAreTold == Spec => []ListenersKnowPrimary
<1>1. IInv => ListenersKnowPrimary
  BY DEF IInv
<1> QED
  BY Invariant, <1>1, PTL

\* The greater of two numbers.
LEMMA MaxOfTwo ==
  ASSUME NEW a \in Int, NEW b \in Int
  PROVE  Max({a, b}) \in {a, b} /\ Max({a, b}) >= a /\ Max({a, b}) >= b
<1>1. \E x \in {a, b} : \A y \in {a, b} : x >= y
  OBVIOUS
<1> QED
  BY <1>1 DEF Max

\* What gives nothing away any more is forgotten in bounded time (DecayMemories).
THEOREM TheSilentAreForgotten == Spec => []SilentIsForgotten
<1>1. IInv => SilentIsForgotten
  <2> SUFFICES ASSUME IInv, AwarenessDecay > 0, NEW t \in remembered
               PROVE  memory[t].silent < Max({Full, MemoryLifetime + 1})
    BY DEF SilentIsForgotten
  <2> DEFINE m == memory[t]
  <2>1. Sound(m) /\ Recent(m)
    BY DEF IInv, TypeOK
  <2>2. m \in Memory /\ Fading(m)
    BY <2>1 DEF Sound
  <2> HIDE DEF m
  <2>3. /\ m.silent \in 0 .. Full + MemoryLifetime /\ m.awareness \in 0 .. Full
        /\ m.unseen \in 0 .. MemoryLifetime + 1
    BY <2>2, EntryFields
  <2>4. m.silent < Full \/ m.silent < MemoryLifetime + 1
    BY <2>1, <2>2, <2>3, ScaleFacts DEF Fading, Recent
  <2>5. m.silent < Max({Full, MemoryLifetime + 1})
    <3> DEFINE life == MemoryLifetime + 1
    <3>1. Full \in Int /\ life \in Int
      BY ScaleFacts
    <3> HIDE DEF life
    <3>2. Max({Full, life}) \in {Full, life} /\ Max({Full, life}) >= Full
          /\ Max({Full, life}) >= life
      BY <3>1, MaxOfTwo
    <3>3. m.silent < Full \/ m.silent < life
      BY <2>4 DEF life
    <3>4. m.silent < Max({Full, life})
      BY <2>3, <3>1, <3>2, <3>3
    <3> QED
      BY <3>4 DEF life
  <2> QED
    BY <2>5 DEF m
<1> QED
  BY Invariant, <1>1, PTL

----------------------------------------------------------------------------
(* The memory implements ThreatBelief.                                     *)

\* Without a memory there is no belief.
LEMMA InitRefines == Init => Belief!BeliefInit
<1> SUFFICES ASSUME Init PROVE Belief!BeliefInit
  OBVIOUS
<1>1. \A t \in Target : memory[t].level = "Unaware" /\ ~memory[t].own
  BY DEF Init, Blank
<1> QED
  BY <1>1 DEF Init, Belief!BeliefInit

\* A stimulus is witnessed, or is hearsay and changes no belief.
LEMMA LearnRefines ==
  ASSUME IInv, NEW t \in Target, NEW m, Learn(t, m),
         [m EXCEPT !.silent = 0].level = memory[t].level,
         [m EXCEPT !.silent = 0].own \/ [m EXCEPT !.silent = 0].own = memory[t].own
  PROVE  Belief!Witness(t) \/ UNCHANGED Belief!beliefVars
<1> DEFINE x == [m EXCEPT !.silent = 0]
<1>1. memory \in [Target -> Memory] /\ memory' = [memory EXCEPT ![t] = x] /\ primary' = primary
  BY DEF Learn, focusVars, IInv, TypeOK
<1> HIDE DEF x
<1>2. memory'[t] = x /\ \A u \in Target \ {t} : memory'[u] = memory[u]
  BY <1>1
<1>3. x.level = memory[t].level /\ (x.own \/ x.own = memory[t].own)
  BY DEF x
<1>4. [u \in Target |-> memory'[u].level] = [u \in Target |-> memory[u].level]
  BY <1>2, <1>3
<1>5. CASE x.own
  <2>1. {u \in Target : memory'[u].own} = {u \in Target : memory[u].own} \cup {t}
    BY <1>2, <1>5
  <2> QED
    BY <1>1, <1>4, <2>1 DEF Belief!Witness
<1>6. CASE x.own = memory[t].own
  <2>1. {u \in Target : memory'[u].own} = {u \in Target : memory[u].own}
    BY <1>2, <1>6
  <2> QED
    BY <1>1, <1>4, <2>1 DEF Belief!beliefVars
<1> QED
  BY <1>3, <1>5, <1>6

\* Forgetting and destruction lose a target.
LEMMA ForgetTargetRefines ==
  ASSUME IInv, NEW t \in Target, ForgetTarget(t)
  PROVE  Belief!LoseTarget(t)
<1>1. /\ memory \in [Target -> Memory] /\ memory' = [memory EXCEPT ![t] = Blank]
      /\ primary' = IF primary = t THEN None ELSE primary
  BY DEF ForgetTarget, AfterForgetting, IInv, TypeOK
<1>2. memory'[t].level = "Unaware" /\ ~memory'[t].own
  BY <1>1 DEF Blank
<1>3. \A u \in Target \ {t} : memory'[u] = memory[u]
  BY <1>1
<1>4. [u \in Target |-> memory'[u].level]
        = [[u \in Target |-> memory[u].level] EXCEPT ![t] = "Unaware"]
  BY <1>2, <1>3
<1>5. {u \in Target : memory'[u].own} = {u \in Target : memory[u].own} \ {t}
  BY <1>2, <1>3
<1> QED
  BY <1>1, <1>4, <1>5 DEF Belief!LoseTarget

LEMMA TargetDestroyedRefines ==
  ASSUME NEW t \in Target, TargetDestroyed(t)
  PROVE  Belief!LoseTarget(t)
<1>1. memory' = memory /\ primary' = IF primary = t THEN None ELSE primary
  BY DEF TargetDestroyed
<1> QED
  BY <1>1 DEF Belief!LoseTarget

\* After an update the soldier aims at somebody it believes in, and is certain only of those
\* whom it sensed itself.
LEMMA UpdateRefines ==
  ASSUME IInv, Update
  PROVE  Belief!Reflect
<1>1. \A t \in Target : memory'[t].level \in Level
                        /\ (memory'[t].level = "Confirmed" => memory'[t].own)
  BY UpdateEffects, EntryFields DEF Sound, Hearsay
<1>2. primary' = None \/ (primary' \in Target /\ memory'[primary'].level # "Unaware")
  BY UpdateEffects
<1>3. [t \in Target |-> memory'[t].level] \in [Target -> Belief!Level]
  BY <1>1 DEF Level, Belief!Level
<1> QED
  BY <1>1, <1>2, <1>3 DEF Belief!Reflect

\* Every step of the memory is a step of the belief, or changes no belief.
LEMMA StepRefines ==
  IInv /\ [Next]_vars => [Belief!BeliefNext]_(Belief!beliefVars)
<1> SUFFICES ASSUME IInv, [Next]_vars PROVE [Belief!BeliefNext]_(Belief!beliefVars)
  OBVIOUS
<1>1. \A t \in Target : Sound(memory[t])
  BY DEF IInv
<1>2. ASSUME NEW t \in Target, ReportDamageFrom(t)
      PROVE  Belief!Witness(t) \/ UNCHANGED Belief!beliefVars
  BY <1>1, <1>2, HurtSound, LearnRefines DEF ReportDamageFrom
<1>3. ASSUME NEW t \in Target, NEW impulse \in Impulse, ReportNoise(t, impulse)
      PROVE  Belief!Witness(t) \/ UNCHANGED Belief!beliefVars
  BY <1>1, <1>3, HeardSound, LearnRefines DEF ReportNoise
<1>4. ASSUME NEW t \in Target, NEW age \in 0 .. Old - 1, NEW reported \in Reported,
             ReceiveSharedThreat(t, age, reported)
      PROVE  Belief!Witness(t) \/ UNCHANGED Belief!beliefVars
  <2>1. CASE Outdated(memory[t], age)
    BY <1>1, <1>4, <2>1, StillSound, LearnRefines DEF ReceiveSharedThreat
  <2>2. CASE ~Outdated(memory[t], age)
    BY <1>1, <1>4, <2>2, ToldSound, LearnRefines DEF ReceiveSharedThreat
  <2> QED
    BY <2>1, <2>2
<1>5. ASSUME NEW t \in Target, ForgetTarget(t) PROVE Belief!LoseTarget(t)
  BY <1>5, ForgetTargetRefines
<1>6. ASSUME NEW t \in Target, TargetDestroyed(t) PROVE Belief!LoseTarget(t)
  BY <1>6, TargetDestroyedRefines
<1>7. CASE Update
  BY <1>7, UpdateRefines DEF Belief!BeliefNext
<1>8. CASE UNCHANGED vars
  BY <1>8 DEF vars, focusVars, Belief!beliefVars
<1> QED
  BY <1>2, <1>3, <1>4, <1>5, <1>6, <1>7, <1>8 DEF Next, Belief!BeliefNext

\* The memory with its ages, scores and places keeps the promise of ThreatBelief: the soldier
\* makes up its mind in updates alone, aims at nobody it does not believe in, and is certain
\* of nobody by hearsay.
THEOREM MemoryImplementsBelief == Spec => Promise
<1> QED
  BY InitRefines, StepRefines, Invariant, PTL DEF Spec, Promise, Belief!BeliefSpec
===============================================================================
