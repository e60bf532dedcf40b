------------------------- MODULE GeometryCache_proofs -------------------------
(***************************************************************************)
(* The invariants of GeometryCache hold for any targets, cameras and       *)
(* numbers of threads that read at a time.                                 *)
(***************************************************************************)
EXTENDS GeometryCache, TLAPS

Heard(j) == job[j].why \in {"configure", "relearn"}

(* Who still waits for an entry, and on what: a reading that will be       *)
(* heard, the end of the session, or the event loop.                       *)
AskedFor ==
  configured => \A c \in cams : cache[target][c] = None =>
    \/ \E j \in Jobs : job[j].on = target /\ c \in job[j].ids /\ Heard(j)
    \/ pending
    \/ queued > 0

RelearnWaits == pending => playback # "Idle"

ConfiguredTarget == configured => target \in Targets

Recorded == file = Saved(cache)

IInv ==
  /\ TypeOK
  /\ SizeOfThisTarget
  /\ EncodedAsCached
  /\ AskedFor
  /\ RelearnWaits
  /\ ConfiguredTarget
  /\ Recorded

-----------------------------------------------------------------------------
LEMMA FreeIsJob == Free \in Job /\ Free.ids = {} /\ Free.at = "idle"
  BY DEF Free, Job

LEMMA SavedType ==
  ASSUME NEW entries \in [Targets -> [Cams -> Entries]]
  PROVE  Saved(entries) \in [Targets -> [Cams -> Entries]]
<1>1. \A t \in Targets, c \in Cams :
        (IF entries[t][c] = Known THEN Failed ELSE entries[t][c]) \in Entries
  BY DEF Entries
<1> QED
  BY <1>1 DEF Saved

(* What was saved once is saved as it is.                                  *)
LEMMA SavedTwice ==
  ASSUME NEW entries \in [Targets -> [Cams -> Entries]]
  PROVE  Saved(Saved(entries)) = Saved(entries)
<1> DEFINE once == Saved(entries)
<1>1. \A t \in Targets, c \in Cams : once[t][c] # Known
  BY EntriesAssumption DEF Saved
<1>2. once \in [Targets -> [Cams -> Entries]]
  BY SavedType
<1> HIDE DEF once
<1>3. \A t \in Targets : [c \in Cams |-> IF once[t][c] = Known THEN Failed ELSE once[t][c]] = once[t]
  BY <1>1, <1>2
<1>4. Saved(once) = [t \in Targets |-> once[t]]
  BY <1>3 DEF Saved
<1> QED
  BY <1>2, <1>4 DEF once

(* What comes back is a usable entry of a camera or a failure, never None. *)
LEMMA ResultsType ==
  ASSUME NEW ids \in SUBSET Cams, NEW own \in SUBSET ids, NEW known \in BOOLEAN
  PROVE  /\ Results(ids, own, known) \in [ids -> Entries]
         /\ \A c \in ids : Results(ids, own, known)[c] # None
<1> DEFINE before(c) == {e \in own : e <= c}
           last(c) == {e \in before(c) : \A d \in before(c) : d <= e}
           result(c) == IF last(c) # {} THEN CHOOSE e \in last(c) : TRUE
                        ELSE IF known THEN Known ELSE Failed
<1>1. \A c \in ids : result(c) \in Cams \cup {Known, Failed}
  <2>1. SUFFICES ASSUME NEW c \in ids PROVE result(c) \in Cams \cup {Known, Failed}
    OBVIOUS
  <2>2. last(c) \subseteq Cams
    OBVIOUS
  <2> HIDE DEF last
  <2>3. last(c) # {} => (CHOOSE e \in last(c) : TRUE) \in Cams
    BY <2>2
  <2> QED
    BY <2>3
<1>2. Results(ids, own, known) = [c \in ids |-> result(c)]
  BY Zenon DEF Results
<1> HIDE DEF result
<1> QED
  BY <1>1, <1>2, EntriesAssumption DEF Entries

-----------------------------------------------------------------------------
(* A thread that was free asks, the others go on.                          *)
LEMMA AskEffect ==
  ASSUME NEW on \in Targets, NEW ids \in SUBSET Cams, NEW why \in Reasons,
         TypeOK, Ask(on, ids, why)
  PROVE  /\ job' \in [Jobs -> Job]
         /\ \E j \in Jobs :
              /\ job'[j].on = on /\ job'[j].ids = ids /\ job'[j].why = why
              /\ \A k \in Jobs : job'[k] = job[k] \/ k = j
              /\ job[j].ids = {}
<1> DEFINE j == CHOOSE k \in Jobs : job[k] = Free
           new == [at |-> "asked", on |-> on, ids |-> ids, why |-> why]
<1>1. (\E k \in Jobs : job[k] = Free) /\ job' = [job EXCEPT ![j] = new]
  BY Zenon DEF Ask
<1>2. j \in Jobs /\ job[j] = Free
  BY <1>1
<1>3. new \in Job /\ new.on = on /\ new.ids = ids /\ new.why = why
  BY DEF Job
<1> HIDE DEF j, new
<1>4. job \in [Jobs -> Job]
  BY DEF TypeOK
<1>5. job' \in [Jobs -> Job] /\ job'[j] = new
  BY <1>1, <1>2, <1>3, <1>4
<1>6. \A k \in Jobs : job'[k] = job[k] \/ k = j
  BY <1>1, <1>4
<1> QED
  BY <1>2, <1>3, <1>5, <1>6, FreeIsJob

(* resolveCameraGeometry() asks for every camera without an entry, and     *)
(* takes nothing from another reading.                                     *)
LEMMA ResolveEffect ==
  ASSUME NEW on \in Targets \cup {NoTarget}, NEW configs \in SUBSET Cams,
         NEW why \in {"configure", "relearn"},
         TypeOK, ResolveCameraGeometry(on, configs, why)
  PROVE  /\ job' \in [Jobs -> Job]
         /\ on \in Targets => \A c \in configs : cache[on][c] = None =>
              \E j \in Jobs : job'[j].on = on /\ c \in job'[j].ids /\ job'[j].why = why
         /\ \A k \in Jobs, c \in Cams : c \in job[k].ids => job'[k] = job[k]
<1>0. job \in [Jobs -> Job]
  BY DEF TypeOK
<1>1. CASE on = NoTarget
  BY <1>0, <1>1, TargetsAssumption DEF ResolveCameraGeometry
<1>2. CASE on # NoTarget /\ Needed(on, configs) = {}
  <2>1. \A c \in configs : cache[on][c] # None
    BY <1>2 DEF Needed
  <2> QED
    BY <1>0, <1>2, <2>1 DEF ResolveCameraGeometry
<1>3. CASE on # NoTarget /\ Needed(on, configs) # {}
  <2>1. Ask(on, Needed(on, configs), why)
    BY <1>3 DEF ResolveCameraGeometry
  <2>2. Needed(on, configs) \in SUBSET Cams /\ why \in Reasons /\ on \in Targets
    BY <1>3 DEF Needed, Reasons
  <2>3. \A c \in configs : cache[on][c] = None => c \in Needed(on, configs)
    BY DEF Needed
  <2>4. PICK need \in SUBSET Cams : need = Needed(on, configs)
    BY <2>2
  <2>5. Ask(on, need, why) /\ why \in Reasons /\ on \in Targets
    BY <2>1, <2>2, <2>4 DEF Ask
  <2>6. /\ job' \in [Jobs -> Job]
        /\ \E j \in Jobs :
              /\ job'[j].on = on /\ job'[j].ids = need /\ job'[j].why = why
              /\ \A k \in Jobs : job'[k] = job[k] \/ k = j
              /\ job[j].ids = {}
    BY <2>2, <2>5, AskEffect, SMTT(60)
  <2>7. \A c \in configs : cache[on][c] = None => c \in need
    BY <2>3, <2>4
  <2> QED
    BY <2>6, <2>7
<1> QED
  BY <1>1, <1>2, <1>3

-----------------------------------------------------------------------------
LEMMA InitIInv == Init => IInv
<1> SUFFICES ASSUME Init PROVE IInv
  OBVIOUS
<1>1. file = [t \in Targets |-> [c \in Cams |-> None]] /\ cache = file
  BY DEF Init
<1>2. file \in [Targets -> [Cams -> Entries]]
  BY <1>1 DEF Entries
<1>3. TypeOK
  <2>1. job \in [Jobs -> Job]
    BY FreeIsJob DEF Init
  <2> QED
    BY <1>1, <1>2, <2>1 DEF Init, TypeOK, Sizes
<1>4. Recorded
  BY <1>1, EntriesAssumption DEF Recorded, Saved
<1>5. SizeOfThisTarget
  BY DEF Init, SizeOfThisTarget
<1> QED
  BY <1>3, <1>4, <1>5
     DEF Init, IInv, EncodedAsCached, AskedFor, RelearnWaits, ConfiguredTarget

-----------------------------------------------------------------------------
(* The pool that Configure builds is seeded from the cache of its target,  *)
(* and what is not there is asked for.                                     *)
LEMMA ConfigureIInv ==
  IInv /\ (\E t \in Targets, configs \in SUBSET Cams : Configure(t, configs)) => IInv'
<1> SUFFICES ASSUME IInv, NEW t \in Targets, NEW configs \in SUBSET Cams, Configure(t, configs)
             PROVE  IInv'
  OBVIOUS
<1> USE DEF IInv
<1>1. /\ target' = t /\ cams' = configs /\ configured' = TRUE
      /\ pool' = Seed(t, configs) /\ pending' = FALSE /\ queued' \in Nat
      /\ UNCHANGED <<cache, file, dropped, playback, declaring, dialog>>
  BY DEF Configure, QueueRelearn, TypeOK
<1>2. ResolveCameraGeometry(t, configs, "configure")
  BY DEF Configure
<1>3. /\ job' \in [Jobs -> Job]
      /\ \A c \in configs : cache[t][c] = None =>
           \E j \in Jobs : job'[j].on = t /\ c \in job'[j].ids /\ job'[j].why = "configure"
  BY <1>2, ResolveEffect, SMTT(60)
<1>4. /\ pool' \in [Cams -> Sizes]
      /\ \A c \in Cams : pool'[c] = IF c \in configs /\ cache[t][c] \in Cams
                                    THEN <<t, cache[t][c]>> ELSE None
  BY <1>1 DEF Seed, Usable, Sizes, TypeOK
<1>5. TypeOK'
  BY <1>1, <1>3, <1>4 DEF TypeOK
<1>6. SizeOfThisTarget'
  BY <1>1, <1>4 DEF SizeOfThisTarget
<1>7. EncodedAsCached'
  BY <1>1, <1>4 DEF EncodedAsCached, Usable
<1>8. AskedFor'
  BY <1>1, <1>3 DEF AskedFor, Heard
<1> QED
  BY <1>1, <1>5, <1>6, <1>7, <1>8 DEF RelearnWaits, ConfiguredTarget, Recorded

(* The steps of the session that touch no entry: the relearn waits for the *)
(* end of the session and is then queued.                                  *)
LEMMA SessionIInv == IInv /\ (Play \/ Pause \/ Stop \/ OpenSettings) => IInv'
<1> USE DEF IInv, cacheVars, relearnVars
<1>1. ASSUME IInv, Play \/ Pause \/ OpenSettings PROVE IInv'
  <2>1. TypeOK'
    BY <1>1 DEF TypeOK, Play, Pause, OpenSettings
  <2>2. SizeOfThisTarget' /\ EncodedAsCached' /\ ConfiguredTarget' /\ Recorded'
    BY <1>1 DEF SizeOfThisTarget, EncodedAsCached, ConfiguredTarget, Recorded, Play, Pause,
                OpenSettings, Saved
  <2>3. AskedFor' /\ RelearnWaits'
    BY <1>1 DEF AskedFor, Heard, RelearnWaits, Play, Pause, OpenSettings
  <2> QED
    BY <2>1, <2>2, <2>3
<1>2. ASSUME IInv, Stop PROVE IInv'
  <2>1. /\ UNCHANGED <<target, cams, dialog, configured, pool, cache, file, dropped, job>>
        /\ playback' = "Idle" /\ declaring' = FALSE /\ pending' = FALSE
        /\ queued' = IF pending THEN queued + 1 ELSE queued
    BY <1>2 DEF Stop, QueueRelearn
  <2>2. queued \in Nat /\ pending \in BOOLEAN
    BY <1>2 DEF TypeOK
  <2>3. queued' \in Nat /\ (pending => queued' > 0) /\ (queued > 0 => queued' > 0)
    <3>1. CASE pending = TRUE
      BY <2>1, <2>2, <3>1
    <3>2. CASE pending = FALSE
      BY <2>1, <2>2, <3>2
    <3> QED
      BY <2>2, <3>1, <3>2
  <2>4. TypeOK'
    BY <1>2, <2>1, <2>3 DEF TypeOK
  <2>5. SizeOfThisTarget' /\ EncodedAsCached' /\ ConfiguredTarget' /\ Recorded' /\ RelearnWaits'
    BY <1>2, <2>1 DEF SizeOfThisTarget, EncodedAsCached, ConfiguredTarget, Recorded, RelearnWaits, Saved
  <2>6. AskedFor'
    BY <1>2, <2>1, <2>3 DEF AskedFor, Heard
  <2> QED
    BY <2>4, <2>5, <2>6
<1> QED
  BY <1>1, <1>2

(* The queued relearn asks for every camera that has no entry by now.      *)
LEMMA RelearnIInv == IInv /\ RelearnRuns => IInv'
<1> SUFFICES ASSUME IInv, RelearnRuns PROVE IInv'
  OBVIOUS
<1> USE DEF IInv
<1>1. /\ UNCHANGED <<target, cams, playback, declaring, dialog, configured,
                     pool, cache, file, dropped, pending>>
      /\ queued > 0 /\ queued' = queued - 1
      /\ ResolveCameraGeometry(target, cams, "relearn")
  BY DEF RelearnRuns, sessionVars, cacheVars
<1>2. PICK on \in Targets \cup {NoTarget}, configs \in SUBSET Cams :
        on = target /\ configs = cams
  BY DEF TypeOK
<1>3. ResolveCameraGeometry(on, configs, "relearn")
  BY <1>1, <1>2 DEF ResolveCameraGeometry, Ask, Needed
<1>4. /\ job' \in [Jobs -> Job]
      /\ on \in Targets => \A c \in configs : cache[on][c] = None =>
           \E j \in Jobs : job'[j].on = on /\ c \in job'[j].ids /\ job'[j].why = "relearn"
  BY <1>3, ResolveEffect, SMTT(60)
<1>5. TypeOK'
  BY <1>1, <1>4 DEF TypeOK
<1>6. AskedFor'
  BY <1>1, <1>2, <1>4 DEF AskedFor, Heard, ConfiguredTarget
<1>7. SizeOfThisTarget' /\ EncodedAsCached' /\ ConfiguredTarget' /\ Recorded' /\ RelearnWaits'
  BY <1>1 DEF SizeOfThisTarget, EncodedAsCached, ConfiguredTarget, Recorded, RelearnWaits, Saved
<1> QED
  BY <1>5, <1>6, <1>7

(* A launch knows what the file has; none of it is used by the pool yet.   *)
LEMMA RelaunchIInv == IInv /\ Relaunch => IInv'
<1> SUFFICES ASSUME IInv, Relaunch PROVE IInv'
  OBVIOUS
<1> USE DEF IInv
<1>1. /\ target' \in Targets \cup {NoTarget} /\ cams' \in SUBSET Cams
      /\ pool' = [c \in Cams |-> None]
      /\ cache' = file /\ file' = file
      /\ dropped' = [t \in Targets |-> {}] /\ pending' = FALSE /\ queued' = 0
      /\ playback' = "Idle" /\ declaring' = FALSE /\ dialog' = NoTarget
      /\ job' = [j \in Jobs |-> Free] /\ configured' = FALSE
  BY DEF Relaunch
<1>2. job' \in [Jobs -> Job] /\ pool' \in [Cams -> Sizes]
  BY <1>1, FreeIsJob DEF Sizes
<1>3. TypeOK'
  BY <1>1, <1>2 DEF TypeOK
<1>4. Recorded'
  <2>1. Saved(Saved(cache)) = Saved(cache)
    BY SavedTwice DEF TypeOK
  <2>2. file = Saved(cache)
    BY DEF Recorded
  <2> QED
    BY <1>1, <2>1, <2>2 DEF Recorded, Saved
<1>5. SizeOfThisTarget' /\ EncodedAsCached' /\ AskedFor' /\ RelearnWaits' /\ ConfiguredTarget'
  BY <1>1 DEF SizeOfThisTarget, EncodedAsCached, AskedFor, RelearnWaits, ConfiguredTarget
<1> QED
  BY <1>3, <1>4, <1>5

-----------------------------------------------------------------------------
(* An error takes the entry from the cache, the file and the pool at once, *)
(* and its relearn waits for the end of the session.                       *)
LEMMA DeclareIInv == IInv /\ (\E suspects \in SUBSET Cams : DeclareAnswered(suspects)) => IInv'
<1> SUFFICES ASSUME IInv, NEW suspects \in SUBSET Cams, DeclareAnswered(suspects) PROVE IInv'
  OBVIOUS
<1> USE DEF IInv
<1> DEFINE gone == suspects \ dropped[target]
           kept == [cache EXCEPT ![target] =
                      [c \in Cams |-> IF c \in gone THEN None ELSE cache[target][c]]]
<1>1. /\ UNCHANGED <<target, cams, playback, dialog, configured, queued, job>>
      /\ playback = "Playing" /\ declaring' = FALSE
      /\ dropped' = [dropped EXCEPT ![target] = @ \cup gone]
      /\ cache' = kept
      /\ file' = IF gone = {} THEN file ELSE Saved(kept)
      /\ pool' = [c \in Cams |-> IF c \in gone THEN None ELSE pool[c]]
      /\ pending' = (pending \/ gone # {})
  BY DEF DeclareAnswered, Invalidate
<1>2. gone \subseteq Cams
  OBVIOUS
<1>3. /\ kept \in [Targets -> [Cams -> Entries]]
      /\ \A t \in Targets, c \in Cams :
           kept[t][c] = IF t = target /\ c \in gone THEN None ELSE cache[t][c]
  BY DEF TypeOK, Entries
<1>4. gone = {} => kept = cache
  <2> SUFFICES ASSUME gone = {} PROVE kept = cache
    OBVIOUS
  <2>1. \A t \in Targets : kept[t] = cache[t]
    <3> SUFFICES ASSUME NEW t \in Targets PROVE kept[t] = cache[t]
      OBVIOUS
    <3>1. kept[t] \in [Cams -> Entries] /\ cache[t] \in [Cams -> Entries]
      BY <1>3 DEF TypeOK
    <3>2. \A c \in Cams : kept[t][c] = cache[t][c]
      BY <1>3
    <3> QED
      BY <3>1, <3>2
  <2>2. cache \in [Targets -> [Cams -> Entries]]
    BY DEF TypeOK
  <2> HIDE DEF kept
  <2> QED
    BY <1>3, <2>1, <2>2
<1> HIDE DEF gone, kept
<1>5. Recorded'
  <2>1. file' = Saved(kept)
    BY <1>1, <1>4 DEF Recorded
  <2> QED
    BY <1>1, <2>1 DEF Recorded, Saved
<1>6. TypeOK'
  <2>1. file' \in [Targets -> [Cams -> Entries]]
    BY <1>1, <1>3, SavedType DEF TypeOK
  <2>2. pool' \in [Cams -> Sizes]
    BY <1>1 DEF TypeOK, Sizes
  <2>3. dropped' \in [Targets -> SUBSET Cams]
    BY <1>1, <1>2 DEF TypeOK
  <2>4. pending' \in BOOLEAN
    BY <1>1 DEF TypeOK
  <2> QED
    BY <1>1, <1>3, <2>1, <2>2, <2>3, <2>4 DEF TypeOK
<1>7. SizeOfThisTarget'
  BY <1>1 DEF SizeOfThisTarget
<1>8. EncodedAsCached'
  <2> SUFFICES ASSUME configured, NEW c \in cams, cache'[target][c] \in Cams
               PROVE  pool'[c] = <<target, cache'[target][c]>>
    BY <1>1 DEF EncodedAsCached, Usable
  <2>1. c \in Cams /\ target \in Targets
    BY DEF TypeOK, ConfiguredTarget
  <2>2. c \notin gone /\ cache'[target][c] = cache[target][c]
    BY <1>1, <1>3, <2>1, EntriesAssumption
  <2>3. pool'[c] = pool[c]
    BY <1>1, <2>1, <2>2
  <2> QED
    BY <2>2, <2>3 DEF EncodedAsCached, Usable
<1>9. AskedFor'
  <2> SUFFICES ASSUME configured, NEW c \in cams, cache'[target][c] = None
               PROVE  \/ \E j \in Jobs : job[j].on = target /\ c \in job[j].ids /\ Heard(j)
                      \/ pending'
                      \/ queued > 0
    BY <1>1 DEF AskedFor, Heard
  <2>1. c \in Cams /\ target \in Targets
    BY DEF TypeOK, ConfiguredTarget
  <2>2. CASE c \in gone
    BY <1>1, <2>2
  <2>3. CASE c \notin gone
    <3>1. cache[target][c] = None
      BY <1>1, <1>3, <2>1, <2>3
    <3> QED
      BY <1>1, <3>1 DEF AskedFor
  <2> QED
    BY <2>2, <2>3
<1> QED
  BY <1>1, <1>5, <1>6, <1>7, <1>8, <1>9 DEF RelearnWaits, ConfiguredTarget

LEMMA CooldownIInv == IInv /\ (\E t \in Targets : CooldownEnds(t)) => IInv'
<1> SUFFICES ASSUME IInv, NEW t \in Targets, CooldownEnds(t) PROVE IInv'
  OBVIOUS
<1> USE DEF IInv
<1>1. /\ UNCHANGED <<target, cams, playback, declaring, dialog, configured,
                     pool, cache, file, pending, queued, job>>
      /\ dropped' \in [Targets -> SUBSET Cams]
  BY DEF CooldownEnds, sessionVars, cacheVars, TypeOK
<1>2. TypeOK'
  BY <1>1 DEF TypeOK
<1>3. /\ SizeOfThisTarget' /\ EncodedAsCached' /\ AskedFor' /\ RelearnWaits' /\ ConfiguredTarget'
      /\ Recorded'
  BY <1>1 DEF SizeOfThisTarget, EncodedAsCached, AskedFor, Heard, RelearnWaits, ConfiguredTarget,
              Recorded, Saved
<1> QED
  BY <1>2, <1>3

-----------------------------------------------------------------------------
(* Steps of the dialog and the threads that only move jobs: those that     *)
(* will be heard keep their target and ids.                                *)
LEMMA JobsMove ==
  ASSUME IInv,
         UNCHANGED <<target, cams, playback, declaring, configured,
                     pool, cache, file, dropped, pending, queued>>,
         dialog' \in Targets \cup {NoTarget},
         job' \in [Jobs -> Job],
         \A j \in Jobs : Heard(j) /\ job[j].ids # {} =>
           job'[j].on = job[j].on /\ job'[j].ids = job[j].ids /\ job'[j].why = job[j].why
  PROVE  IInv'
<1> USE DEF IInv
<1>1. TypeOK'
  BY DEF TypeOK
<1>2. SizeOfThisTarget' /\ EncodedAsCached' /\ RelearnWaits' /\ ConfiguredTarget' /\ Recorded'
  BY DEF SizeOfThisTarget, EncodedAsCached, RelearnWaits, ConfiguredTarget, Recorded, Saved
<1>3. AskedFor'
  BY DEF AskedFor, Heard
<1> QED
  BY <1>1, <1>2, <1>3

LEMMA ReadIInv == IInv /\ Read => IInv'
<1> SUFFICES ASSUME IInv, Read PROVE IInv'
  OBVIOUS
<1>1. TypeOK
  BY DEF IInv
<1>2. UNCHANGED <<target, cams, playback, declaring, dialog, configured,
                  pool, cache, file, dropped, pending, queued>>
  BY DEF Read, sessionVars, cacheVars, relearnVars
<1>3. PICK on \in Targets : on = dialog
  BY <1>1 DEF Read, TypeOK
<1>4. Ask(on, Cams, "read") /\ Cams \in SUBSET Cams /\ "read" \in Reasons
  BY <1>3 DEF Read, Ask, Reasons
<1>5. /\ job' \in [Jobs -> Job]
      /\ \E j \in Jobs : /\ \A k \in Jobs : job'[k] = job[k] \/ k = j
                         /\ job[j].ids = {}
  BY <1>1, <1>4, AskEffect, SMTT(60)
<1> QED
  BY <1>1, <1>2, <1>5, JobsMove DEF TypeOK

LEMMA CloseIInv == IInv /\ CloseSettings => IInv'
<1> SUFFICES ASSUME IInv, CloseSettings PROVE IInv'
  OBVIOUS
<1>1. TypeOK
  BY DEF IInv
<1>2. UNCHANGED <<target, cams, playback, declaring, configured,
                  pool, cache, file, dropped, pending, queued>>
      /\ dialog' = NoTarget
  BY DEF CloseSettings, cacheVars, relearnVars
<1>3. /\ job' \in [Jobs -> Job]
      /\ \A j \in Jobs : job[j].why # "read" => job'[j] = job[j]
  BY <1>1 DEF CloseSettings, TypeOK, Job, Free, Reasons
<1> QED
  BY <1>2, <1>3, JobsMove DEF Heard

LEMMA ThreadsIInv == ASSUME IInv, NEW j \in Jobs, QueriesLive(j) \/ Posts(j) PROVE IInv'
<1>1. TypeOK
  BY DEF IInv
<1>2. UNCHANGED <<target, cams, playback, declaring, dialog, configured,
                  pool, cache, file, dropped, pending, queued>>
  BY DEF QueriesLive, Posts, sessionVars, cacheVars, relearnVars
<1>3. PICK at \in {"querying", "read", "queried"} : job' = [job EXCEPT ![j].at = at]
  BY DEF QueriesLive, Posts
<1>4. job[j] \in Job /\ job[j] # Free
  BY <1>1, FreeIsJob DEF TypeOK, QueriesLive, Posts
<1> DEFINE new == [job[j] EXCEPT !.at = at]
<1>5. new \in Job /\ new.on = job[j].on /\ new.ids = job[j].ids /\ new.why = job[j].why
  BY <1>4 DEF Job
<1>6. job' = [job EXCEPT ![j] = new]
  BY <1>3
<1> HIDE DEF new
<1>7. /\ job' \in [Jobs -> Job]
      /\ \A k \in Jobs : job'[k].on = job[k].on /\ job'[k].ids = job[k].ids /\ job'[k].why = job[k].why
  BY <1>1, <1>5, <1>6 DEF TypeOK
<1> QED
  BY <1>1, <1>2, <1>7, JobsMove DEF TypeOK

-----------------------------------------------------------------------------
(* The answer of a reading writes cache and file together, and the pool    *)
(* too if the session is still on that target.                             *)
LEMMA ApplyEffect ==
  ASSUME NEW j \in Jobs, NEW results, IInv, Apply(j, results),
         results \in [job[j].ids -> Entries], \A c \in job[j].ids : results[c] # None
  PROVE  /\ cache' \in [Targets -> [Cams -> Entries]]
         /\ file' = Saved(cache')
         /\ \A t \in Targets, c \in Cams :
              cache'[t][c] = IF t = job[j].on /\ c \in job[j].ids THEN results[c] ELSE cache[t][c]
         /\ pool' = [c \in Cams |->
              IF job[j].on = target /\ c \in cams \cap job[j].ids /\ results[c] \in Cams
              THEN <<job[j].on, results[c]>> ELSE pool[c]]
<1> USE DEF IInv
<1> DEFINE on == job[j].on
           ids == job[j].ids
           entries == [c \in Cams |-> IF c \in ids THEN results[c] ELSE cache[on][c]]
           read == [cache EXCEPT ![on] = entries]
<1>1. cache' = read /\ file' = Saved(read)
  BY DEF Apply
<1>2. pool' = [c \in Cams |->
         IF on = target /\ c \in cams \cap ids /\ results[c] \in Cams
         THEN <<on, results[c]>> ELSE pool[c]]
  BY DEF Apply, Applies, Usable
<1>3. cache \in [Targets -> [Cams -> Entries]]
  BY DEF TypeOK
<1>4. on \in Targets => entries \in [Cams -> Entries]
  BY <1>3
<1>5. \A c \in Cams : entries[c] = IF c \in ids THEN results[c] ELSE cache[on][c]
  OBVIOUS
<1> HIDE DEF entries
<1>6. read \in [Targets -> [Cams -> Entries]]
  BY <1>3, <1>4
<1>7. \A t \in Targets : read[t] = IF t = on THEN entries ELSE cache[t]
  BY <1>3
<1>8. \A t \in Targets, c \in Cams :
        read[t][c] = IF t = on /\ c \in ids THEN results[c] ELSE cache[t][c]
  BY <1>5, <1>7
<1> HIDE DEF read
<1> QED
  BY <1>1, <1>2, <1>6, <1>8 DEF Saved

LEMMA DeliveredIInv == ASSUME IInv, NEW j \in Jobs, Delivered(j) PROVE IInv'
<1> USE DEF IInv
<1>1. /\ UNCHANGED <<target, cams, playback, declaring, dialog, configured,
                     dropped, pending, queued>>
      /\ job' = [job EXCEPT ![j] = Free]
  BY DEF Delivered, sessionVars, relearnVars
<1>2. /\ job' \in [Jobs -> Job]
      /\ \A k \in Jobs : k # j => job'[k] = job[k]
  BY <1>1, FreeIsJob DEF TypeOK
<1>3. CASE job[j].why = "unheard"
  <2>1. UNCHANGED <<pool, cache, file>>
    BY <1>3 DEF Delivered, cacheVars
  <2>2. \A k \in Jobs : Heard(k) => job'[k] = job[k]
    BY <1>2, <1>3 DEF Heard
  <2> QED
    BY <1>1, <1>2, <2>1, <2>2, JobsMove DEF TypeOK
<1>4. CASE job[j].why # "unheard"
  <2>1. PICK own \in SUBSET job[j].ids, known \in BOOLEAN : Apply(j, Results(job[j].ids, own, known))
    BY <1>4 DEF Delivered
  <2>2. PICK results : results = Results(job[j].ids, own, known)
    OBVIOUS
  <2>3. PICK ids \in SUBSET Cams : ids = job[j].ids
    BY DEF TypeOK, Job, Free
  <2>4. results \in [ids -> Entries] /\ \A c \in ids : results[c] # None
    <3>1. own \in SUBSET ids /\ results = Results(ids, own, known)
      BY <2>2, <2>3
    <3> QED
      BY <3>1, ResultsType
  <2>5. Apply(j, results)
    BY <2>1, <2>2 DEF Apply
  <2>6. /\ cache' \in [Targets -> [Cams -> Entries]]
        /\ file' = Saved(cache')
        /\ \A t \in Targets, c \in Cams :
             cache'[t][c] = IF t = job[j].on /\ c \in ids THEN results[c] ELSE cache[t][c]
        /\ pool' = [c \in Cams |->
             IF job[j].on = target /\ c \in cams \cap ids /\ results[c] \in Cams
             THEN <<job[j].on, results[c]>> ELSE pool[c]]
    BY <2>3, <2>4, <2>5, ApplyEffect, SMTT(60)
  <2>7. TypeOK'
    <3>1. file' \in [Targets -> [Cams -> Entries]]
      BY <2>6, SavedType
    <3>2. pool' \in [Cams -> Sizes]
      <4>1. job[j].on \in Targets
        BY FreeIsJob DEF TypeOK, Job, Delivered
      <4> QED
        BY <2>6, <4>1 DEF TypeOK, Sizes
    <3> QED
      BY <1>1, <1>2, <2>6, <3>1, <3>2 DEF TypeOK
  <2>8. Recorded'
    BY <2>6 DEF Recorded, Saved
  <2>9. SizeOfThisTarget'
    BY <1>1, <2>6 DEF SizeOfThisTarget
  <2>10. EncodedAsCached'
    <3> SUFFICES ASSUME configured, NEW c \in cams, cache'[target][c] \in Cams
                 PROVE  pool'[c] = <<target, cache'[target][c]>>
      BY <1>1 DEF EncodedAsCached, Usable
    <3>1. c \in Cams /\ target \in Targets
      BY DEF TypeOK, ConfiguredTarget
    <3>2. CASE job[j].on = target /\ c \in ids
      BY <2>6, <3>1, <3>2
    <3>3. CASE ~(job[j].on = target /\ c \in ids)
      <4>1. cache'[target][c] = cache[target][c] /\ pool'[c] = pool[c]
        BY <2>6, <3>1, <3>3
      <4> QED
        BY <4>1 DEF EncodedAsCached, Usable
    <3> QED
      BY <3>2, <3>3
  <2>11. AskedFor'
    <3> SUFFICES ASSUME configured, NEW c \in cams, cache'[target][c] = None, ~pending, ~(queued > 0)
                 PROVE  \E k \in Jobs : job'[k].on = target /\ c \in job'[k].ids /\ Heard(k)'
      BY <1>1 DEF AskedFor
    <3>1. c \in Cams /\ target \in Targets
      BY DEF TypeOK, ConfiguredTarget
    <3>2. ~(job[j].on = target /\ c \in ids) /\ cache[target][c] = None
      BY <2>4, <2>6, <3>1
    <3>3. PICK k \in Jobs : job[k].on = target /\ c \in job[k].ids /\ Heard(k)
      BY <3>2 DEF AskedFor
    <3>4. k # j
      BY <2>3, <3>2, <3>3
    <3> QED
      BY <1>2, <3>3, <3>4 DEF Heard
  <2> QED
    BY <1>1, <2>7, <2>8, <2>9, <2>10, <2>11 DEF RelearnWaits, ConfiguredTarget
<1> QED
  BY <1>3, <1>4

-----------------------------------------------------------------------------
LEMMA NextIInv == IInv /\ [Next]_vars => IInv'
<1> SUFFICES ASSUME IInv, [Next]_vars PROVE IInv'
  OBVIOUS
<1>1. CASE UNCHANGED vars
  BY <1>1 DEF vars, sessionVars, cacheVars, relearnVars, IInv, TypeOK, SizeOfThisTarget,
              EncodedAsCached, AskedFor, Heard, RelearnWaits, ConfiguredTarget, Recorded, Saved
<1>2. CASE User
  BY <1>2, ConfigureIInv, SessionIInv, ReadIInv, CloseIInv, RelaunchIInv DEF User
<1>3. CASE RelearnRuns
  BY <1>3, RelearnIInv
<1>4. CASE \E suspects \in SUBSET Cams : DeclareAnswered(suspects)
  BY <1>4, DeclareIInv
<1>5. CASE \E t \in Targets : CooldownEnds(t)
  BY <1>5, CooldownIInv
<1>6. ASSUME NEW j \in Jobs, JobStep(j) PROVE IInv'
  BY <1>6, ThreadsIInv, DeliveredIInv DEF JobStep
<1> QED
  BY <1>1, <1>2, <1>3, <1>4, <1>5, <1>6 DEF Next

LEMMA Invariance == Spec => []IInv
<1>1. Init => IInv
  BY InitIInv
<1>2. IInv /\ [Next]_vars => IInv'
  BY NextIInv
<1> QED
  BY <1>1, <1>2, PTL DEF Spec

(* Every variable of the cache, its file, the pool and the threads keeps   *)
(* its type.                                                               *)
THEOREM GeometryTypeCorrect == Spec => []TypeOK
<1>1. IInv => TypeOK
  BY DEF IInv
<1> QED
  BY <1>1, Invariance, PTL

(* No camera is ever encoded at a size that resolveAsync() read from       *)
(* another target than the session's.                                      *)
THEOREM NoForeignSize == Spec => []SizeOfThisTarget
<1>1. IInv => SizeOfThisTarget
  BY DEF IInv
<1> QED
  BY <1>1, Invariance, PTL

(* Since the last Configure, StreamPool encodes every camera at the size   *)
(* in geometryCache_, if that has one.                                     *)
THEOREM PoolFollowsCache == Spec => []EncodedAsCached
<1>1. IInv => EncodedAsCached
  BY DEF IInv
<1> QED
  BY <1>1, Invariance, PTL

(* At Idle, no configured camera without an entry is forgotten: its        *)
(* reading is under way and will be heard, or its relearn is queued.       *)
THEOREM NoCameraForgotten == Spec => []NoneForgotten
<1>1. IInv => NoneForgotten
  <2> SUFFICES ASSUME IInv, configured, playback = "Idle", queued = 0,
                      NEW c \in cams, cache[target][c] = None
               PROVE  Asking(target, c)
    BY DEF NoneForgotten
  <2>1. ~pending /\ ~(queued > 0)
    BY DEF IInv, RelearnWaits
  <2>2. PICK j \in Jobs : job[j].on = target /\ c \in job[j].ids /\ Heard(j)
    BY <2>1 DEF IInv, AskedFor
  <2> QED
    BY <2>2 DEF Asking, Heard
<1> QED
  BY <1>1, Invariance, PTL

(* camera_configs.json has every usable entry of the cache and none that   *)
(* an error has dropped.                                                   *)
THEOREM CacheIsRemembered == Spec => []FileRemembers
<1>1. IInv => FileRemembers
  <2> SUFFICES ASSUME IInv, NEW t \in Targets, NEW c \in Cams,
                      cache[t][c] \in Cams \/ file[t][c] \in Cams
               PROVE  file[t][c] = cache[t][c]
    BY DEF FileRemembers, Usable
  <2>1. file[t][c] = IF cache[t][c] = Known THEN Failed ELSE cache[t][c]
    BY DEF IInv, Recorded, Saved
  <2> QED
    BY <2>1, EntriesAssumption
<1> QED
  BY <1>1, Invariance, PTL
=============================================================================
