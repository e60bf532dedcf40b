---------------------------- MODULE GeometryCache ----------------------------
(***************************************************************************)
(* The resolution of each camera id on each target: MainWindow's cache of  *)
(* what was read (geometryCache_), its file, the sizes StreamPool encodes  *)
(* at, the background threads that read them from a target over ssh, and   *)
(* the relearn after an error, which waits for the end of the session.     *)
(*                                                                         *)
(* A size is named by the camera it was read for: an entry that is a       *)
(* camera id holds that camera's size, its own or, for a fallback, that of *)
(* an earlier one.  Which template of the target a size comes from, and    *)
(* whether the file can be written, are left out.                          *)
(***************************************************************************)
EXTENDS Naturals, FiniteSets

CONSTANTS
  Targets, NoTarget,
  Cams,                \* camera ids
  MaxJobs,             \* bound: threads reading from targets at a time
  None, Failed, Known  \* no entry; a failed one; one with a known reason

ASSUME TargetsAssumption == NoTarget \notin Targets
ASSUME CamsAssumption == Cams \subseteq Nat /\ MaxJobs \in Nat
ASSUME EntriesAssumption ==
  /\ {None, Failed, Known} \cap Cams = {} /\ None \notin Targets \X Cams
  /\ None # Failed /\ None # Known /\ Failed # Known

Jobs == 1..MaxJobs

VARIABLES
  target,     \* currentTarget_
  cams,       \* ids of the cameras in the pool
  pool,       \* the size each of them is encoded at next; None: 0x0
  cache,      \* geometryCache_
  file,       \* camera_configs.json
  dropped,    \* geometryInvalidatedAt_ is less than the cool-down ago
  pending,    \* geometryRelearnPending_
  queued,     \* resolveCameraGeometry() calls queued by applyState(Idle)
  playback,   \* state_
  declaring,  \* a declaration has not been answered
  dialog,     \* the target of the open Camera Configs dialog
  job,        \* the threads of resolveAsync()
  configured  \* history: Configure was accepted since the launch

cacheVars == <<pool, cache, file>>
relearnVars == <<dropped, pending, queued>>
sessionVars == <<target, cams, playback, declaring, dialog, configured>>
vars == <<sessionVars, cacheVars, relearnVars, job>>

Entries == Cams \cup {None, Failed, Known}
Sizes == (Targets \X Cams) \cup {None}
Reasons == {"configure", "relearn", "read", "unheard"}
Free == [at |-> "idle", on |-> NoTarget, ids |-> {}, why |-> "configure"]
Job == {Free} \cup [at : {"asked", "querying", "read", "queried"},
                    on : Targets, ids : SUBSET Cams, why : Reasons]

Usable(entry) == entry \in Cams

(* A launch of the program, where nothing was read yet.                    *)
Init ==
  /\ file = [t \in Targets |-> [c \in Cams |-> None]]
  /\ target \in Targets \cup {NoTarget} /\ cams \in SUBSET Cams
  /\ pool = [c \in Cams |-> None]
  /\ cache = file
  /\ dropped = [t \in Targets |-> {}] /\ pending = FALSE /\ queued = 0
  /\ playback = "Idle" /\ declaring = FALSE /\ dialog = NoTarget
  /\ job = [j \in Jobs |-> Free]
  /\ configured = FALSE

-----------------------------------------------------------------------------
(* CameraConfigStore::save() does not write the reason of a failure.       *)
Saved(entries) ==
  [t \in Targets |-> [c \in Cams |->
     IF entries[t][c] = Known THEN Failed ELSE entries[t][c]]]

Ask(on, ids, why) ==
  LET j == CHOOSE k \in Jobs : job[k] = Free
  IN /\ \E k \in Jobs : job[k] = Free
     /\ job' = [job EXCEPT ![j] = [at |-> "asked", on |-> on, ids |-> ids, why |-> why]]

(* What is worth a reading.                                                *)
Needed(on, configs) == {c \in configs : cache[on][c] \in {None, Failed}}

(* resolveCameraGeometry(): ask for what has no usable entry, if anything. *)
ResolveCameraGeometry(on, configs, why) ==
  IF on = NoTarget THEN UNCHANGED job
  ELSE IF Needed(on, configs) = {} THEN UNCHANGED job
  ELSE Ask(on, Needed(on, configs), why)

(* The part of applyState(Idle) that queues the relearn; the variant drops *)
(* it.                                                                     *)
QueueRelearnLost == pending' = FALSE /\ UNCHANGED queued
QueueRelearn ==
  /\ pending' = FALSE
  /\ queued' = IF pending THEN queued + 1 ELSE queued

(* onConfigureTriggered(), accepted.  The pool is built anew and seeded    *)
(* from the cache.                                                         *)
Seed(on, configs) ==
  [c \in Cams |-> IF c \in configs /\ Usable(cache[on][c])
                  THEN <<on, cache[on][c]>> ELSE None]

Configure(on, configs) ==
  /\ playback = "Idle" /\ dialog = NoTarget /\ configs # {}
  /\ target' = on /\ cams' = configs /\ configured' = TRUE
  /\ pool' = Seed(on, configs)
  /\ QueueRelearn
  /\ ResolveCameraGeometry(on, configs, "configure")
  /\ UNCHANGED <<cache, file, dropped, playback, declaring, dialog>>

RelearnRuns ==
  /\ queued > 0 /\ queued' = queued - 1
  /\ ResolveCameraGeometry(target, cams, "relearn")
  /\ UNCHANGED <<sessionVars, cacheVars, dropped, pending>>

-----------------------------------------------------------------------------
(* The session, as far as it matters here.                                 *)

Play ==
  /\ playback # "Playing" /\ cams # {} /\ dialog = NoTarget
  /\ playback' = "Playing" /\ declaring' = (target # NoTarget)
  /\ UNCHANGED <<target, cams, dialog, configured, cacheVars, relearnVars, job>>

Pause ==
  /\ playback = "Playing" /\ dialog = NoTarget
  /\ playback' = "Paused"
  /\ UNCHANGED <<target, cams, declaring, dialog, configured, cacheVars, relearnVars, job>>

(* By the user or by the program itself.  Bound: one relearn waits in the  *)
(* event queue.                                                            *)
Stop ==
  /\ playback # "Idle" /\ (pending => queued = 0)
  /\ playback' = "Idle" /\ declaring' = FALSE
  /\ QueueRelearn
  /\ UNCHANGED <<target, cams, dialog, configured, cacheVars, dropped, job>>

(* invalidateCameraGeometry() of each id in suspects.                      *)
Invalidate(suspects) ==
  LET gone == suspects \ dropped[target]
      kept == [cache EXCEPT ![target] =
                 [c \in Cams |-> IF c \in gone THEN None ELSE cache[target][c]]]
  IN /\ dropped' = [dropped EXCEPT ![target] = @ \cup gone]
     /\ cache' = kept
     /\ file' = IF gone = {} THEN file ELSE Saved(kept)
     /\ pool' = [c \in Cams |-> IF c \in gone THEN None ELSE pool[c]]
     /\ pending' = (pending \/ gone # {})

(* onDeclareComplete(): ERROR or PREVIEW_ERROR for some cameras, or the    *)
(* declaration refused as a whole, which the dispatcher words "ERROR 0".   *)
DeclareAnswered(suspects) ==
  /\ playback = "Playing" /\ declaring
  /\ suspects \subseteq cams \/ suspects = {0}
  /\ declaring' = FALSE
  /\ Invalidate(suspects)
  /\ UNCHANGED <<target, cams, playback, dialog, configured, queued, job>>

CooldownEnds(t) ==
  /\ dropped[t] # {}
  /\ \E c \in dropped[t] : dropped' = [dropped EXCEPT ![t] = @ \ {c}]
  /\ UNCHANGED <<sessionVars, cacheVars, pending, queued, job>>

-----------------------------------------------------------------------------
(* Settings > Camera Configs: a modal dialog that reads every id.          *)

OpenSettings ==
  /\ target # NoTarget /\ dialog = NoTarget
  /\ dialog' = target
  /\ UNCHANGED <<target, cams, playback, declaring, configured, cacheVars, relearnVars, job>>

Read ==
  /\ dialog # NoTarget /\ \A j \in Jobs : job[j].why # "read"
  /\ Ask(dialog, Cams, "read")
  /\ UNCHANGED <<sessionVars, cacheVars, relearnVars>>

(* A read under way goes on, but nobody hears its answer.                  *)
CloseSettings ==
  /\ dialog # NoTarget /\ dialog' = NoTarget
  /\ job' = [j \in Jobs |-> IF job[j].why = "read"
                            THEN [job[j] EXCEPT !.why = "unheard"] ELSE job[j]]
  /\ UNCHANGED <<target, cams, playback, declaring, configured, cacheVars, relearnVars>>

-----------------------------------------------------------------------------
(* resolveAsync() on its thread.                                           *)

(* A template that declares no size: the target's cameras are queried.     *)
QueriesLive(j) ==
  /\ job[j].at = "asked"
  /\ job' = [job EXCEPT ![j].at = "querying"]
  /\ UNCHANGED <<sessionVars, cacheVars, relearnVars>>

(* The results are posted to the GUI thread.                               *)
Posts(j) ==
  /\ \/ job[j].at = "asked" /\ job' = [job EXCEPT ![j].at = "read"]
     \/ job[j].at = "querying" /\ job' = [job EXCEPT ![j].at = "queried"]
  /\ UNCHANGED <<sessionVars, cacheVars, relearnVars>>

(* The answer to ids when those in own were read: each other id takes the  *)
(* size of the last one read before it, ascending, or fails, with the      *)
(* reason if the board's log has it.                                       *)
Results(ids, own, known) ==
  [c \in ids |->
     LET before == {e \in own : e <= c}
         last == {e \in before : \A d \in before : d <= e}
     IN IF last # {} THEN CHOOSE e \in last : TRUE
        ELSE IF known THEN Known ELSE Failed]

(* No live query: either ssh let nobody in or every template had a size.   *)
Readable(j, own, known) ==
  /\ own \subseteq job[j].ids
  /\ job[j].at = "read" => own \in {{}, job[j].ids} /\ ~known
  /\ known => own # job[j].ids

(* The results concern the pool if their target is still the current one;  *)
(* the variant asks only that there is a target.                           *)
AppliesAnywhere(j) == target # NoTarget
Applies(j) == job[j].on = target

(* The two slots for results, which do the same.  Variant: the pool is     *)
(* left to the next Configure.                                             *)
ApplyToCache(j, results) ==
  LET read == [cache EXCEPT ![job[j].on] =
                 [c \in Cams |-> IF c \in job[j].ids THEN results[c] ELSE cache[job[j].on][c]]]
  IN cache' = read /\ file' = Saved(read) /\ UNCHANGED pool

Apply(j, results) ==
  LET read == [cache EXCEPT ![job[j].on] =
                 [c \in Cams |-> IF c \in job[j].ids THEN results[c] ELSE cache[job[j].on][c]]]
  IN /\ cache' = read
     /\ file' = Saved(read)
     /\ pool' = [c \in Cams |->
          IF Applies(j) /\ c \in cams \cap job[j].ids /\ Usable(results[c])
          THEN <<job[j].on, results[c]>> ELSE pool[c]]

Delivered(j) ==
  /\ job[j].at \in {"read", "queried"}
  /\ \E own \in SUBSET job[j].ids, known \in BOOLEAN :
       /\ Readable(j, own, known)
       /\ IF job[j].why = "unheard" THEN UNCHANGED cacheVars
          ELSE Apply(j, Results(job[j].ids, own, known))
  /\ job' = [job EXCEPT ![j] = Free]
  /\ UNCHANGED <<sessionVars, relearnVars>>

-----------------------------------------------------------------------------
(* The program ends, at any moment, and is launched again, with the        *)
(* session it remembers or another.                                        *)
Relaunch ==
  /\ target' \in Targets \cup {NoTarget} /\ cams' \in SUBSET Cams
  /\ pool' = [c \in Cams |-> None]
  /\ cache' = file
  /\ dropped' = [t \in Targets |-> {}] /\ pending' = FALSE /\ queued' = 0
  /\ playback' = "Idle" /\ declaring' = FALSE /\ dialog' = NoTarget
  /\ job' = [j \in Jobs |-> Free]
  /\ configured' = FALSE
  /\ UNCHANGED file

User ==
  \/ \E t \in Targets, configs \in SUBSET Cams : Configure(t, configs)
  \/ Play \/ Pause \/ Stop
  \/ OpenSettings \/ Read \/ CloseSettings
  \/ Relaunch

JobStep(j) == QueriesLive(j) \/ Posts(j) \/ Delivered(j)

Next ==
  \/ User
  \/ RelearnRuns
  \/ \E suspects \in SUBSET Cams : DeclareAnswered(suspects)
  \/ \E t \in Targets : CooldownEnds(t)
  \/ \E j \in Jobs : JobStep(j)

Spec == Init /\ [][Next]_vars

-----------------------------------------------------------------------------
TypeOK ==
  /\ target \in Targets \cup {NoTarget} /\ dialog \in Targets \cup {NoTarget}
  /\ cams \subseteq Cams /\ pool \in [Cams -> Sizes]
  /\ cache \in [Targets -> [Cams -> Entries]] /\ file \in [Targets -> [Cams -> Entries]]
  /\ dropped \in [Targets -> SUBSET Cams] /\ queued \in Nat
  /\ pending \in BOOLEAN /\ declaring \in BOOLEAN /\ configured \in BOOLEAN
  /\ playback \in {"Idle", "Playing", "Paused"}
  /\ job \in [Jobs -> Job]

(* Once the session is configured, a camera with a usable entry is encoded *)
(* at exactly that size, whichever of Configure, relearn and Read put it   *)
(* there, in whatever order their answers came.                            *)
EncodedAsCached ==
  configured => \A c \in cams : Usable(cache[target][c]) =>
                  pool[c] = <<target, cache[target][c]>>

(* A camera is never encoded at a size that was read from a target the     *)
(* session has left, however late the answer comes.                        *)
SizeOfThisTarget == \A c \in Cams : pool[c] # None => pool[c][1] = target

Asking(t, c) == \E j \in Jobs : job[j].on = t /\ c \in job[j].ids /\ job[j].why # "unheard"

(* An error that drops a camera's entry is followed by a new reading: at   *)
(* Idle a configured camera without an entry has been asked for, or is     *)
(* about to be (docs/adr/0011, triggers 1 and 2).                          *)
NoneForgotten ==
  configured /\ playback = "Idle" /\ queued = 0 =>
    \A c \in cams : cache[target][c] = None => Asking(target, c)

(* What the next launch will know is what this one knows: every usable     *)
(* entry is in the file, and none that an error has dropped.               *)
FileRemembers ==
  \A t \in Targets, c \in Cams :
    Usable(cache[t][c]) \/ Usable(file[t][c]) => file[t][c] = cache[t][c]

=============================================================================
