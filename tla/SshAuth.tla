------------------------------ MODULE SshAuth ------------------------------
(***************************************************************************)
(* TargetSsh: the logins of the targets, found out once and shared by the  *)
(* threads that talk to a target over ssh (ensureAuth(), run(), scp()),    *)
(* the recovery from a host key that a reflash made stale, and the dialogs *)
(* with which an install asks the user.                                    *)
(*                                                                         *)
(* A thread is one of MainWindow's.  What its commands do is modelled in   *)
(* ShimToggle and GeometryCache; here they succeed or fail.  A time-out of *)
(* an ssh or a ping counts as a target that was away at that time.         *)
(***************************************************************************)
EXTENDS Integers, Sequences

CONSTANTS
  Targets, NoTarget, Users,
  Keyed,        \* the logins that need no password: target and user
  Silent,       \* targets that do not answer a ping
  Installs,     \* threads of runInjectorInstall()
  Shim,         \* the one of refreshShimStatus() or toggleShimStatus()
  Others        \* threads of the other features; none of them asks the user

ASSUME SetsAssumption ==
  /\ NoTarget \notin Targets /\ Silent \subseteq Targets
  /\ Keyed \subseteq Targets \X Users
  /\ {"typed", "mistyped", "none"} \cap Users = {}
ASSUME ThreadsAssumption == Installs \cap Others = {} /\ Shim \notin Installs \cup Others

Threads == Installs \cup Others \cup {Shim}

VARIABLES
  current, user,  \* currentTarget_ and sshUser_
  shown,          \* shimState_ is not Blind
  login,          \* authByTarget_
  suppressed,     \* the targets whose passwordlessProbeFailedUntil_ is not over
  known,          \* the target's entry in known_hosts
  up,             \* the targets that can be reached
  thread,         \* the threads' local variables, see Thread
  dialogs,        \* modal dialogs on the GUI thread, the innermost last
  paid,           \* history: targets whose failing login a thread waited for
  reflashed,      \* history: threads whose target was reflashed as they tried
  rewritten       \* history: targets whose login was stored a second time

guiVars == <<current, user, shown>>
authVars == <<login, rewritten>>
waitVars == <<suppressed, paid>>
envVars == <<known, up>>
vars == <<guiVars, authVars, waitVars, envVars, thread, dialogs, reflashed>>

(* A login without a password is its user; a typed one may be wrong.       *)
Login == Users \cup {"typed", "mistyped"}
NoLogin == "none"
Accepts(t, l) == l = "typed" \/ <<t, l>> \in Keyed

Trying == {"first", "unkey", "again"}
Phases == Trying \cup {"idle", "lookup", "missed", "ping", "prompt", "offer", "confirm", "ready", "ran"}
Thread == [phase : Phases,
           target : Targets \cup {NoTarget}, user : Users \cup {NoLogin},  \* captured
           job : {"probe", "run"}, mine : Login \cup {NoLogin},  \* the attempt and its login
           error : {"ok", "away", "hostkey", "refused"},          \* the last RunResult
           confirmed : Login \cup {NoLogin},                      \* what the dialog showed
           asks : BOOLEAN,                                        \* has a credentials dialog
           missed : BOOLEAN]                     \* history: looked before a login was stored
Idle == [phase |-> "idle", target |-> NoTarget, user |-> NoLogin, job |-> "probe",
         mine |-> NoLogin, error |-> "ok", confirmed |-> NoLogin,
         asks |-> FALSE, missed |-> FALSE]

On(c) == thread[c].target

Init ==
  /\ current \in Targets \cup {NoTarget} /\ user \in Users /\ shown = FALSE
  /\ login = [t \in Targets |-> NoLogin] /\ suppressed = {}
  /\ known \in [Targets -> {"none", "current", "stale"}] /\ up = Targets
  /\ thread = [c \in Threads |-> Idle] /\ dialogs = <<>>
  /\ paid = [c \in Threads |-> {}] /\ reflashed = {} /\ rewritten = {}

-----------------------------------------------------------------------------
(* The GUI thread starts a thread, which takes the target and the user     *)
(* along; below a modal dialog the user starts nothing.  The query of the  *)
(* library (refreshShimStatus()) and the toggle exclude each other by      *)
(* shimBusy_; the toggle needs an answer of the query, though maybe about  *)
(* the target before.  The other queries start on timers and on Play.      *)
Starts(c, asks) ==
  /\ thread[c] = Idle /\ current # NoTarget
  /\ thread' = [thread EXCEPT ![c] = [Idle EXCEPT !.phase = "lookup", !.target = current,
                                                  !.user = user, !.asks = asks]]
  /\ UNCHANGED <<current, user, authVars, waitVars, envVars, dialogs, reflashed>>

Install(c) == c \in Installs /\ dialogs = <<>> /\ Starts(c, TRUE) /\ UNCHANGED shown
Toggle == dialogs = <<>> /\ shown /\ Starts(Shim, TRUE) /\ shown' = FALSE
Query(c) == c \in Others \cup {Shim} /\ Starts(c, FALSE) /\ UNCHANGED shown

(* onConfigureTriggered().                                                 *)
Configure(t, u) ==
  /\ dialogs = <<>> /\ <<t, u>> # <<current, user>>
  /\ current' = t /\ user' = u /\ shown' = FALSE
  /\ UNCHANGED <<authVars, waitVars, envVars, thread, dialogs, reflashed>>

(* The thread is over.  The query or the toggle tells what it found of the *)
(* library, if it got as far.                                              *)
Ends(c) ==
  /\ thread' = [thread EXCEPT ![c] = Idle] /\ reflashed' = reflashed \ {c}
  /\ shown' = IF c = Shim THEN thread[c].phase = "ran" /\ thread[c].error = "ok" ELSE shown

-----------------------------------------------------------------------------
(* ensureAuth().  Each part under the mutex is a step.                     *)
Goes(c, p) == thread' = [thread EXCEPT ![c].phase = p]
Authed(c) == IF c \in Installs THEN "offer" ELSE "ready"

(* lookupAuth().  Variant: the login is looked for anew each time.         *)
Looked(c, p) ==
  /\ thread' = [thread EXCEPT ![c].phase = p, ![c].missed = (login[On(c)] = NoLogin)]
  /\ UNCHANGED <<guiVars, authVars, waitVars, envVars, dialogs, reflashed>>
LookupForgets(c) == thread[c].phase = "lookup" /\ Looked(c, "missed")
Lookup(c) ==
  /\ thread[c].phase = "lookup"
  /\ Looked(c, IF login[On(c)] # NoLogin THEN Authed(c) ELSE "missed")

(* The credentials callback: a dialog, or declined by the program.         *)
Credentials(c) ==
  IF thread[c].asks
  THEN Goes(c, "prompt") /\ dialogs' = Append(dialogs, c) /\ UNCHANGED <<shown, reflashed>>
  ELSE Ends(c) /\ UNCHANGED dialogs

SkipProbe(c) ==
  /\ thread[c].phase = "missed"
  /\ IF On(c) \in suppressed THEN Credentials(c)
     ELSE Goes(c, "ping") /\ UNCHANGED <<shown, dialogs, reflashed>>
  /\ UNCHANGED <<current, user, authVars, waitVars, envVars>>

(* A login failed, or seems to: recorded for all the threads.              *)
Suppress(c) ==
  /\ suppressed' = suppressed \cup {On(c)}
  /\ paid' = [paid EXCEPT ![c] = @ \cup {On(c)}]

(* runWithHostKeyRetry() begins.                                           *)
Tries(c, what, with) ==
  /\ thread' = [thread EXCEPT ![c] = [@ EXCEPT !.phase = "first", !.job = what, !.mine = with,
                                               !.error = "ok"]]
  /\ reflashed' = reflashed \ {c}

(* quickPingUnreachable(); no answer of ping itself counts as reachable.   *)
(* Variant: its failure is not recorded.                                   *)
PingForgets(c) ==
  /\ thread[c].phase = "ping"
  /\ \/ /\ On(c) \notin up \/ On(c) \in Silent
        /\ Credentials(c) /\ paid' = [paid EXCEPT ![c] = @ \cup {On(c)}] /\ UNCHANGED suppressed
     \/ /\ Tries(c, "probe", thread[c].user)
        /\ UNCHANGED <<shown, waitVars, dialogs>>
  /\ UNCHANGED <<current, user, authVars, envVars>>
Ping(c) ==
  /\ thread[c].phase = "ping"
  /\ \/ /\ On(c) \notin up \/ On(c) \in Silent
        /\ Credentials(c) /\ Suppress(c)
     \/ /\ Tries(c, "probe", thread[c].user)
        /\ UNCHANGED <<shown, waitVars, dialogs>>
  /\ UNCHANGED <<current, user, authVars, envVars>>

(* The login is stored, whatever another thread may have stored meanwhile. *)
Store(c, l) ==
  /\ login' = [login EXCEPT ![On(c)] = l]
  /\ rewritten' = IF login[On(c)] = NoLogin THEN rewritten ELSE rewritten \cup {On(c)}
  /\ thread' = [thread EXCEPT ![c].phase = Authed(c), ![c].missed = FALSE]

(* One ssh or scp: how it ends.  The host key comes before the login.      *)
Outcome(c) ==
  IF On(c) \notin up THEN "away"
  ELSE IF known[On(c)] = "stale" THEN "hostkey"
  ELSE IF Accepts(On(c), thread[c].mine) THEN "ok" ELSE "refused"

(* A host that was not known is noted down (accept-new).                   *)
Tried(c) ==
  /\ thread[c].phase \in {"first", "again"}
  /\ known' = IF Outcome(c) \in {"ok", "refused"}
              THEN [known EXCEPT ![On(c)] = "current"] ELSE known
  /\ UNCHANGED <<current, user, up>>

Retries(c) == Outcome(c) = "hostkey" /\ thread[c].phase = "first"

(* The attempt is over: once more without the old key, or it was the login *)
(* that was proved, or refused, or a command.                              *)
Retry(c) ==
  /\ Tried(c) /\ Retries(c) /\ Goes(c, "unkey")
  /\ UNCHANGED <<shown, authVars, waitVars, dialogs, reflashed>>
Proved(c) ==
  /\ Tried(c) /\ thread[c].job = "probe" /\ Outcome(c) = "ok" /\ Store(c, thread[c].mine)
  /\ UNCHANGED <<shown, waitVars, dialogs, reflashed>>
Failed(c) ==
  /\ Tried(c) /\ thread[c].job = "probe" /\ Outcome(c) # "ok" /\ ~Retries(c)
  /\ Suppress(c) /\ Credentials(c)
  /\ UNCHANGED authVars
Ran(c) ==
  /\ Tried(c) /\ thread[c].job = "run" /\ ~Retries(c)
  /\ thread' = [thread EXCEPT ![c].phase = "ran", ![c].error = Outcome(c)]
  /\ UNCHANGED <<shown, authVars, waitVars, dialogs, reflashed>>

(* removeStaleHostKey().  Variant: the entry stays.                        *)
UnkeyNothing(c) ==
  /\ thread[c].phase = "unkey" /\ Goes(c, "again")
  /\ UNCHANGED <<guiVars, authVars, waitVars, envVars, dialogs, reflashed>>
Unkey(c) ==
  /\ thread[c].phase = "unkey" /\ Goes(c, "again")
  /\ known' = [known EXCEPT ![On(c)] = "none"]
  /\ UNCHANGED <<guiVars, authVars, waitVars, up, dialogs, reflashed>>

-----------------------------------------------------------------------------
(* The commands of a thread that has a login.  An install shows it first.  *)
Offer(c) ==
  /\ thread[c].phase = "offer" /\ dialogs' = Append(dialogs, c)
  /\ thread' = [thread EXCEPT ![c].phase = "confirm", ![c].confirmed = login[On(c)]]
  /\ UNCHANGED <<guiVars, authVars, waitVars, envVars, reflashed>>

(* run() and scp() look the login up for each command, of which an install *)
(* has several: it goes on after one that succeeds, and after              *)
(* realRefSyncCommand() whatever its result.  Variant: the user the thread *)
(* was started with.                                                       *)
MayRun(c) == thread[c].phase = "ready" \/ (thread[c].phase = "ran" /\ c \in Installs)
CommandAsGiven(c) ==
  /\ MayRun(c) /\ Tries(c, "run", thread[c].user)
  /\ UNCHANGED <<guiVars, authVars, waitVars, envVars, dialogs>>
Command(c) ==
  /\ MayRun(c) /\ Tries(c, "run", login[On(c)])
  /\ UNCHANGED <<guiVars, authVars, waitVars, envVars, dialogs>>

(* After the last command, or one that failed.                             *)
Done(c) ==
  /\ thread[c].phase = "ran" /\ Ends(c)
  /\ UNCHANGED <<current, user, authVars, waitVars, envVars, dialogs>>

(* The user answers the innermost dialog; the others wait below it.        *)
Innermost(c) == dialogs # <<>> /\ dialogs[Len(dialogs)] = c
Close == dialogs' = SubSeq(dialogs, 1, Len(dialogs) - 1)

Type(c, l) ==
  /\ Innermost(c) /\ thread[c].phase = "prompt" /\ Close /\ Store(c, l)
  /\ UNCHANGED <<guiVars, waitVars, envVars, reflashed>>

Confirm(c) ==
  /\ Innermost(c) /\ thread[c].phase = "confirm" /\ Close /\ Goes(c, "ready")
  /\ UNCHANGED <<guiVars, authVars, waitVars, envVars, reflashed>>

Cancel(c) ==
  /\ Innermost(c) /\ thread[c].phase \in {"prompt", "confirm"} /\ Close /\ Ends(c)
  /\ UNCHANGED <<current, user, authVars, waitVars, envVars>>

-----------------------------------------------------------------------------
(* Time and the targets.  After kPasswordlessProbeFailureTtlMs a probe may *)
(* run again.  Variant: only once the login is known.                      *)
ExpireOnLogin(t) ==
  /\ t \in suppressed /\ login[t] # NoLogin /\ suppressed' = suppressed \ {t}
  /\ paid' = [c \in Threads |-> paid[c] \ {t}]
  /\ UNCHANGED <<guiVars, authVars, envVars, thread, dialogs, reflashed>>
Expire(t) ==
  /\ t \in suppressed /\ suppressed' = suppressed \ {t}
  /\ paid' = [c \in Threads |-> paid[c] \ {t}]
  /\ UNCHANGED <<guiVars, authVars, envVars, thread, dialogs, reflashed>>

Away(t) ==
  /\ t \in up /\ up' = up \ {t}
  /\ UNCHANGED <<guiVars, authVars, waitVars, known, thread, dialogs, reflashed>>

Back(t) ==
  /\ t \notin up /\ up' = up \cup {t}
  /\ UNCHANGED <<guiVars, authVars, waitVars, known, thread, dialogs, reflashed>>

(* A reflash gives the target another host key.                            *)
Reflash(t) ==
  /\ t \notin up /\ known[t] = "current" /\ known' = [known EXCEPT ![t] = "stale"]
  /\ reflashed' = reflashed \cup {c \in Threads : On(c) = t /\ thread[c].phase \in Trying}
  /\ UNCHANGED <<guiVars, authVars, waitVars, up, thread, dialogs>>

Works(c) ==
  \/ Lookup(c) \/ SkipProbe(c) \/ Ping(c) \/ Retry(c) \/ Unkey(c)
  \/ Proved(c) \/ Failed(c) \/ Ran(c) \/ Offer(c) \/ Command(c) \/ Done(c)

Answered(c) ==
  \/ \E l \in {"typed", "mistyped"} : Type(c, l)
  \/ Confirm(c) \/ Cancel(c)

Next ==
  \/ Toggle
  \/ \E c \in Threads : Install(c) \/ Query(c) \/ Works(c) \/ Answered(c)
  \/ \E t \in Targets, u \in Users : Configure(t, u)
  \/ \E t \in Targets : Expire(t) \/ Away(t) \/ Back(t) \/ Reflash(t)

Spec == Init /\ [][Next]_vars

(* Threads run, every ssh and ping has a time-out, a suppression ends, and *)
(* the timer queries a target that answers the monitor's pings.  The user  *)
(* need not do anything.                                                   *)
Fairness ==
  /\ \A c \in Threads : WF_vars(Works(c))
  /\ \A t \in Targets : WF_vars(Expire(t))
  /\ WF_vars(current \in up \ Silent /\ Query(Shim))

FairSpec == Spec /\ Fairness

-----------------------------------------------------------------------------
TypeOK ==
  /\ current \in Targets \cup {NoTarget} /\ user \in Users /\ shown \in BOOLEAN
  /\ login \in [Targets -> Login \cup {NoLogin}] /\ rewritten \subseteq Targets
  /\ suppressed \subseteq Targets /\ paid \in [Threads -> SUBSET Targets]
  /\ known \in [Targets -> {"none", "current", "stale"}] /\ up \subseteq Targets
  /\ thread \in [Threads -> Thread] /\ reflashed \subseteq Threads
  /\ dialogs \in Seq(Threads)

(* A stale host key, routine after a reflash, never makes a login or a     *)
(* command fail, however many threads clear it at the same time, unless    *)
(* the target was reflashed once more during that very attempt.            *)
HostKeyHarmless ==
  \A c \in Threads :
    thread[c].phase = "again" /\ Outcome(c) = "hostkey" => c \in reflashed

(* No feature waits twice for the same failing login within 15 s: a thread *)
(* that has paid for a target's time-out probes it again only after the    *)
(* suppression was over.                                                   *)
PaysOnce ==
  \A c \in Threads :
    thread[c].phase \in Trying \cup {"ping"} /\ thread[c].job = "probe" => On(c) \notin paid[c]

(* A login once found is the session's: Configure with another user does   *)
(* not change it, nor does anything but a thread that looked for it before *)
(* it was there, and each such thread at most once.                        *)
LoginSettles ==
  [][\A t \in Targets : login[t] # NoLogin /\ login'[t] # login[t] =>
       \E c \in Threads : On(c) = t /\ thread[c].missed /\ ~thread'[c].missed]_vars

(* Every command of an install runs as the login that its confirmation     *)
(* showed, unless another thread, asking at the same time, overwrote it.   *)
CommandsAsConfirmed ==
  \A c \in Installs :
    thread[c].phase \in Trying /\ thread[c].job = "run" =>
      thread[c].mine = thread[c].confirmed \/ On(c) \in rewritten

(* Who has a dialog open waits for its answer, and the other way round,    *)
(* and nobody has two: however they came to lie on top of each other, the  *)
(* innermost one can be answered, and then the next.                       *)
DialogsAreAwaited ==
  /\ \A c \in Threads : thread[c].phase \in {"prompt", "confirm"} <=>
                        \E i \in 1..Len(dialogs) : dialogs[i] = c
  /\ \A i, j \in 1..Len(dialogs) : dialogs[i] = dialogs[j] => i = j

(* A target that stays reachable with a login that works gets it, whatever *)
(* failed before and whatever the user does: neither a suppression nor a   *)
(* stale host key stays, and a dialog that is answered, or is not that of  *)
(* the shim thread, is in nobody's way.  Only a toggle's dialog can be,    *)
(* and only if it is left open for ever: the query waits for it.  It needs *)
(* a second target, which a late query showed as toggleable; where there   *)
(* is one, the login is found without exception.                           *)
Fit(t, u) == current = t /\ user = u /\ t \in up \ Silent /\ <<t, u>> \in Keyed
LoginIsFound ==
  \A t \in Targets, u \in Users :
    <>[]Fit(t, u) => <>(login[t] # NoLogin) \/ <>[](thread[Shim].phase = "prompt")
=============================================================================
