---------------------------- MODULE SshAuth_proofs ----------------------------
(***************************************************************************)
(* The safety properties of SshAuth hold for any targets, users, threads   *)
(* and lengths of an install.                                              *)
(***************************************************************************)
EXTENDS SshAuth, TLAPS

(* The thread has not got a login yet; it has one, and runs commands.      *)
Proving(c) == thread[c].phase \in Trying /\ thread[c].job = "probe"
Running(c) == thread[c].phase \in Trying /\ thread[c].job = "run"
Missing(c) == thread[c].phase \in {"missed", "ping", "prompt"} \/ Proving(c)
Serving(c) == thread[c].phase \in {"confirm", "ready", "ran"} \/ Running(c)

(* A thread works on a target, and stores a login only if it missed one.   *)
WorksOnTarget(c) ==
  /\ thread[c].phase # "idle" => On(c) \in Targets /\ thread[c].user \in Users
  /\ Missing(c) => thread[c].missed
  /\ Proving(c) => thread[c].mine \in Users

(* It runs commands only with a login, an install with the one shown.      *)
HasLogin(c) == thread[c].phase = "offer" \/ Serving(c) => login[On(c)] # NoLogin
AsConfirmed(c) ==
  /\ c \in Installs /\ Serving(c) => thread[c].confirmed = login[On(c)] \/ On(c) \in rewritten
  /\ c \in Installs /\ Running(c) => thread[c].mine = thread[c].confirmed \/ On(c) \in rewritten

(* A second attempt meets no stale key, a probe no failure just paid for.  *)
KeyCleared(c) == thread[c].phase = "again" => known[On(c)] # "stale" \/ c \in reflashed
PaidEarlier(c) == thread[c].phase = "ping" \/ Proving(c) => On(c) \notin paid[c]

ThreadOK(c) ==
  WorksOnTarget(c) /\ HasLogin(c) /\ AsConfirmed(c) /\ KeyCleared(c) /\ PaidEarlier(c)

(* What a thread has paid for is suppressed for all.                       *)
PaidIsSuppressed == \A c \in Threads : paid[c] \subseteq suppressed

IInv ==
  /\ TypeOK
  /\ \A c \in Threads : ThreadOK(c)
  /\ PaidIsSuppressed

(* What a step of thread c leaves as it is for the others.                 *)
Frame(c) ==
  /\ \A d \in Threads \ {c} : /\ thread'[d] = thread[d] /\ paid'[d] = paid[d]
                              /\ d \in reflashed => d \in reflashed'
  /\ \A t \in Targets : /\ login[t] # NoLogin => login'[t] # NoLogin
                        /\ \/ login'[t] = login[t] \/ login[t] = NoLogin \/ t \in rewritten'
                        /\ known'[t] = "stale" => known[t] = "stale"
  /\ rewritten \subseteq rewritten'

-----------------------------------------------------------------------------
LEMMA IdleIsThread == Idle \in Thread /\ Idle.phase = "idle" /\ ~Idle.missed
  BY DEF Idle, Thread, Phases, Trying, Login, NoLogin

LEMMA NoneIsNoLogin == NoLogin \notin Login
  BY SetsAssumption DEF NoLogin, Login

LEMMA OthersKept ==
  ASSUME TypeOK, NEW c, Frame(c), NEW d \in Threads \ {c}, ThreadOK(d)
  PROVE  ThreadOK(d)'
<1>1. thread'[d] = thread[d] /\ paid'[d] = paid[d] /\ (d \in reflashed => d \in reflashed')
  BY DEF Frame
<1>2. (On(d) = On(d)') /\ (Missing(d) <=> Missing(d)') /\ (Proving(d) <=> Proving(d)')
      /\ (Serving(d) <=> Serving(d)') /\ (Running(d) <=> Running(d)')
  BY <1>1 DEF On, Missing, Serving, Proving, Running
<1>3. WorksOnTarget(d)'
  BY <1>1, <1>2 DEF ThreadOK, WorksOnTarget
<1>4. CASE thread[d].phase = "idle"
  BY <1>1, <1>2, <1>3, <1>4 DEF ThreadOK, HasLogin, AsConfirmed, KeyCleared, PaidEarlier, Missing,
     Serving, Proving, Running, Trying
<1>5. CASE thread[d].phase # "idle"
  <2>1. On(d) \in Targets
    BY <1>5 DEF ThreadOK, WorksOnTarget
  <2>2. HasLogin(d)'
    BY <1>1, <1>2, <2>1 DEF ThreadOK, HasLogin, Frame
  <2>3. AsConfirmed(d)'
    BY <1>1, <1>2, <2>1 DEF ThreadOK, AsConfirmed, HasLogin, Frame
  <2>4. KeyCleared(d)' /\ PaidEarlier(d)'
    BY <1>1, <1>2, <2>1 DEF ThreadOK, KeyCleared, PaidEarlier, Frame
  <2> QED
    BY <1>3, <2>2, <2>3, <2>4 DEF ThreadOK
<1> QED
  BY <1>4, <1>5

LEMMA InitIInv == Init => IInv
<1> SUFFICES ASSUME Init PROVE IInv
  OBVIOUS
<1>1. TypeOK
  <2>1. thread \in [Threads -> Thread] /\ dialogs \in Seq(Threads)
    BY IdleIsThread DEF Init
  <2>2. login \in [Targets -> Login \cup {NoLogin}] /\ paid \in [Threads -> SUBSET Targets]
    BY DEF Init
  <2> QED
    BY <2>1, <2>2 DEF Init, TypeOK
<1>2. \A c \in Threads : thread[c].phase = "idle" /\ thread[c] = Idle
  BY IdleIsThread DEF Init
<1>3. \A c \in Threads : ThreadOK(c)
  BY <1>2 DEF ThreadOK, WorksOnTarget, HasLogin, AsConfirmed, KeyCleared, PaidEarlier, Missing,
     Serving, Proving, Running, Trying
<1> QED
  BY <1>1, <1>3 DEF Init, IInv, PaidIsSuppressed

-----------------------------------------------------------------------------
(* A step of a thread, from what it does to the thread itself.             *)
LEMMA ThreadStep ==
  ASSUME IInv, NEW c \in Threads, Frame(c), TypeOK', ThreadOK(c)', PaidIsSuppressed'
  PROVE  IInv'
<1>1. \A d \in Threads \ {c} : ThreadOK(d)'
  BY OthersKept, Zenon DEF IInv
<1> QED
  BY <1>1 DEF IInv

LEMMA StartIInv ==
  ASSUME IInv, NEW c \in Threads, NEW asks \in BOOLEAN, Starts(c, asks), shown' \in BOOLEAN
  PROVE  IInv'
<1> DEFINE new == [Idle EXCEPT !.phase = "lookup", !.target = current, !.user = user,
                               !.asks = asks]
<1>1. /\ thread' = [thread EXCEPT ![c] = new] /\ current \in Targets
      /\ UNCHANGED <<current, user, authVars, waitVars, envVars, dialogs, reflashed>>
  BY DEF Starts, IInv, TypeOK
<1>2. new \in Thread /\ new.phase = "lookup" /\ new.target = current /\ new.user = user
  BY <1>1, IdleIsThread DEF Idle, Thread, Phases, IInv, TypeOK
<1> HIDE DEF new
<1>3. thread'[c] = new /\ \A d \in Threads \ {c} : thread'[d] = thread[d]
  BY <1>1 DEF IInv, TypeOK
<1>4. TypeOK' /\ Frame(c)
  BY <1>1, <1>2, <1>3 DEF IInv, TypeOK, Frame, authVars, waitVars, envVars
<1>5. ThreadOK(c)'
  BY <1>1, <1>2, <1>3 DEF ThreadOK, WorksOnTarget, HasLogin, AsConfirmed, KeyCleared,
     PaidEarlier, Missing, Serving, Proving, Running, Trying, On, IInv, TypeOK
<1> QED
  BY <1>1, <1>4, <1>5, ThreadStep DEF IInv, PaidIsSuppressed, waitVars

-----------------------------------------------------------------------------
(* The thread goes on to phase p, and nothing else of it changes.          *)
LEMMA GoesTo ==
  ASSUME TypeOK, NEW c \in Threads, NEW p \in Phases, Goes(c, p)
  PROVE  /\ thread' \in [Threads -> Thread]
         /\ \A d \in Threads \ {c} : thread'[d] = thread[d]
         /\ thread'[c] = [thread[c] EXCEPT !.phase = p]
         /\ thread'[c].phase = p
         /\ \A f \in {"target", "user", "job", "mine", "error", "confirmed", "missed"} :
              thread'[c][f] = thread[c][f]
<1>1. thread' = [thread EXCEPT ![c] = [thread[c] EXCEPT !.phase = p]]
  BY DEF Goes, TypeOK
<1>2. thread[c] \in Thread
  BY DEF TypeOK
<1>3. [thread[c] EXCEPT !.phase = p] \in Thread
  BY <1>2 DEF Thread
<1> QED
  BY <1>1, <1>2, <1>3 DEF TypeOK, Thread

LEMMA EndsOK ==
  ASSUME IInv, NEW c \in Threads, Ends(c)
  PROVE  /\ thread' \in [Threads -> Thread] /\ reflashed' \subseteq Threads /\ shown' \in BOOLEAN
         /\ \A d \in Threads \ {c} : thread'[d] = thread[d] /\ (d \in reflashed => d \in reflashed')
         /\ ThreadOK(c)'
<1>1. thread' = [thread EXCEPT ![c] = Idle] /\ reflashed' = reflashed \ {c}
  BY DEF Ends
<1>2. /\ thread' \in [Threads -> Thread] /\ thread'[c].phase = "idle"
      /\ \A d \in Threads \ {c} : thread'[d] = thread[d]
  BY <1>1, IdleIsThread DEF IInv, TypeOK
<1>3. ThreadOK(c)'
  BY <1>2 DEF ThreadOK, WorksOnTarget, HasLogin, AsConfirmed, KeyCleared, PaidEarlier, Missing,
     Serving, Proving, Running, Trying
<1>4. shown' \in BOOLEAN
  <2>1. CASE c = Shim
    <3>1. shown' = (thread[c].phase = "ran" /\ thread[c].error = "ok")
      BY <2>1 DEF Ends
    <3> QED
      BY <3>1
  <2>2. CASE c # Shim
    BY <2>2 DEF Ends, IInv, TypeOK
  <2> QED
    BY <2>1, <2>2
<1> QED
  BY <1>1, <1>2, <1>3, <1>4 DEF IInv, TypeOK

(* What is needed of the phase before.                                     *)
LEMMA OwnOK == ASSUME IInv, NEW c \in Threads
               PROVE  ThreadOK(c) /\ thread[c] \in Thread /\ TypeOK
                      /\ PaidIsSuppressed
  BY DEF IInv, TypeOK

-----------------------------------------------------------------------------
LEMMA LookupIInv == ASSUME IInv, NEW c \in Threads, Lookup(c) PROVE IInv'
<1> DEFINE p == IF login[On(c)] # NoLogin THEN Authed(c) ELSE "missed"
           new == [thread[c] EXCEPT !.phase = p, !.missed = (login[On(c)] = NoLogin)]
<1>1. /\ thread[c].phase = "lookup" /\ thread[c] \in Thread /\ On(c) \in Targets
      /\ UNCHANGED <<guiVars, authVars, waitVars, envVars, dialogs, reflashed>>
  BY OwnOK DEF Lookup, Looked, ThreadOK, WorksOnTarget
<1>2. thread' = [thread EXCEPT ![c] = new]
  BY <1>1 DEF Lookup, Looked, IInv, TypeOK, Thread
<1>3. p \in Phases /\ p \in {"offer", "ready", "missed"}
  BY DEF Authed, Phases
<1>4. new \in Thread /\ new.phase = p /\ new.missed = (login[On(c)] = NoLogin)
      /\ new.target = On(c) /\ new.user = thread[c].user /\ new.confirmed = thread[c].confirmed
  BY <1>1, <1>3 DEF Thread, On
<1>5. (p = "missed" <=> login[On(c)] = NoLogin) /\ (c \in Installs => p # "ready")
  BY DEF Authed
<1> HIDE DEF new, p
<1>6. thread'[c] = new /\ \A d \in Threads \ {c} : thread'[d] = thread[d]
  BY <1>2 DEF IInv, TypeOK
<1>7. TypeOK'
  BY <1>1, <1>2, <1>4 DEF IInv, TypeOK, guiVars, authVars, waitVars, envVars
<1>8. Frame(c)
  BY <1>1, <1>6 DEF Frame, authVars, waitVars, envVars
<1>9. ThreadOK(c)'
  BY <1>1, <1>3, <1>4, <1>5, <1>6, OwnOK DEF ThreadOK, WorksOnTarget, HasLogin, AsConfirmed,
     KeyCleared, PaidEarlier, Missing, Serving, Proving, Running, Trying, On, authVars
<1>10. PaidIsSuppressed'
  BY <1>1 DEF IInv, PaidIsSuppressed, waitVars, authVars, guiVars
<1> QED
  BY <1>7, <1>8, <1>9, <1>10, ThreadStep

LEMMA CredentialsOK ==
  ASSUME IInv, NEW c \in Threads, Credentials(c), Missing(c), UNCHANGED <<current, login, rewritten>>
  PROVE  /\ thread' \in [Threads -> Thread] /\ reflashed' \subseteq Threads /\ shown' \in BOOLEAN
         /\ dialogs' \in Seq(Threads)
         /\ \A d \in Threads \ {c} : thread'[d] = thread[d] /\ (d \in reflashed => d \in reflashed')
         /\ ThreadOK(c)'
<1>1. CASE thread[c].asks
  <2>1. Goes(c, "prompt") /\ dialogs' = Append(dialogs, c) /\ UNCHANGED <<shown, reflashed>>
    BY <1>1 DEF Credentials
  <2>2. /\ thread' \in [Threads -> Thread] /\ thread'[c].phase = "prompt"
        /\ \A d \in Threads \ {c} : thread'[d] = thread[d]
        /\ thread'[c].target = thread[c].target /\ thread'[c].user = thread[c].user
        /\ thread'[c].missed = thread[c].missed
    BY <2>1, GoesTo, OwnOK DEF Phases
  <2>3. ThreadOK(c)'
    BY <2>2, OwnOK DEF ThreadOK, WorksOnTarget, HasLogin, AsConfirmed, KeyCleared, PaidEarlier,
       Missing, Serving, Proving, Running, Trying, On
  <2> QED
    BY <2>1, <2>2, <2>3 DEF IInv, TypeOK
<1>2. CASE ~thread[c].asks
  <2>1. Ends(c) /\ dialogs' = dialogs
    BY <1>2 DEF Credentials
  <2>2. thread[c].phase # "ran"
    BY DEF Missing, Proving, Trying
  <2> QED
    BY <2>1, <2>2, EndsOK DEF IInv, TypeOK
<1> QED
  BY <1>1, <1>2

LEMMA SkipProbeIInv == ASSUME IInv, NEW c \in Threads, SkipProbe(c) PROVE IInv'
<1>1. /\ thread[c].phase = "missed" /\ Missing(c)
      /\ UNCHANGED <<current, user, authVars, waitVars, envVars>>
  BY DEF SkipProbe, Missing
<1>2. PaidIsSuppressed'
  BY <1>1 DEF IInv, PaidIsSuppressed, waitVars
<1>3. CASE On(c) \in suppressed
  <2>1. Credentials(c)
    BY <1>3 DEF SkipProbe
  <2>2. TypeOK' /\ Frame(c)
    BY <1>1, <2>1, CredentialsOK DEF IInv, TypeOK, Frame, authVars, waitVars, envVars
  <2> QED
    BY <1>1, <1>2, <2>1, <2>2, CredentialsOK, ThreadStep DEF authVars
<1>4. CASE On(c) \notin suppressed
  <2>1. Goes(c, "ping") /\ UNCHANGED <<shown, dialogs, reflashed>>
    BY <1>4 DEF SkipProbe
  <2>2. /\ thread' \in [Threads -> Thread] /\ thread'[c].phase = "ping"
        /\ \A d \in Threads \ {c} : thread'[d] = thread[d]
        /\ thread'[c].target = thread[c].target /\ thread'[c].user = thread[c].user
        /\ thread'[c].missed = thread[c].missed
    BY <2>1, GoesTo, OwnOK DEF Phases
  <2>3. TypeOK' /\ Frame(c)
    BY <1>1, <2>1, <2>2 DEF IInv, TypeOK, Frame, authVars, waitVars, envVars
  <2>4. ThreadOK(c)'
    BY <1>1, <1>4, <2>2, OwnOK DEF ThreadOK, WorksOnTarget, HasLogin, AsConfirmed, KeyCleared,
       PaidEarlier, PaidIsSuppressed, Missing, Serving, Proving, Running, Trying, On, waitVars
  <2> QED
    BY <1>1, <1>2, <2>1, <2>3, <2>4, ThreadStep DEF IInv, authVars
<1> QED
  BY <1>3, <1>4

(* runWithHostKeyRetry() begins, with a login of the kind of its job.      *)
LEMMA TriesOK ==
  ASSUME IInv, NEW c \in Threads, NEW what \in {"probe", "run"}, NEW with \in Login,
         Tries(c, what, with)
  PROVE  /\ thread' \in [Threads -> Thread] /\ reflashed' \subseteq Threads
         /\ \A d \in Threads \ {c} : thread'[d] = thread[d] /\ (d \in reflashed => d \in reflashed')
         /\ thread'[c].phase = "first" /\ thread'[c].job = what /\ thread'[c].mine = with
         /\ thread'[c].target = thread[c].target /\ thread'[c].user = thread[c].user
         /\ thread'[c].missed = thread[c].missed /\ thread'[c].confirmed = thread[c].confirmed
<1> DEFINE new == [thread[c] EXCEPT !.phase = "first", !.job = what, !.mine = with, !.error = "ok"]
<1>1. thread' = [thread EXCEPT ![c] = new] /\ reflashed' = reflashed \ {c}
  BY DEF Tries, IInv, TypeOK
<1>2. /\ new \in Thread /\ new.phase = "first" /\ new.job = what /\ new.mine = with
      /\ new.target = thread[c].target /\ new.user = thread[c].user
      /\ new.missed = thread[c].missed /\ new.confirmed = thread[c].confirmed
  BY OwnOK DEF Thread, Phases, Trying
<1> HIDE DEF new
<1> QED
  BY <1>1, <1>2 DEF IInv, TypeOK

LEMMA StoreOK ==
  ASSUME IInv, NEW c \in Threads, NEW l \in Login, Store(c, l), Missing(c),
         UNCHANGED <<current, shown>>
  PROVE  /\ thread' \in [Threads -> Thread]
         /\ \A d \in Threads \ {c} : thread'[d] = thread[d]
         /\ login' \in [Targets -> Login \cup {NoLogin}] /\ rewritten' \subseteq Targets
         /\ \A t \in Targets : /\ login[t] # NoLogin => login'[t] # NoLogin
                               /\ login'[t] = login[t] \/ login[t] = NoLogin \/ t \in rewritten'
         /\ rewritten \subseteq rewritten'
         /\ ThreadOK(c)'
<1> DEFINE new == [thread[c] EXCEPT !.phase = Authed(c), !.missed = FALSE]
<1>1. /\ login' = [login EXCEPT ![On(c)] = l] /\ On(c) \in Targets /\ thread[c] \in Thread
      /\ rewritten' = IF login[On(c)] = NoLogin THEN rewritten ELSE rewritten \cup {On(c)}
  BY OwnOK DEF Store, ThreadOK, WorksOnTarget, Missing, Proving, Trying
<1>2. thread' = [thread EXCEPT ![c] = new]
  BY <1>1 DEF Store, IInv, TypeOK, Thread
<1>3. Authed(c) \in {"offer", "ready"} /\ (c \in Installs => Authed(c) = "offer")
  BY DEF Authed
<1>4. new \in Thread /\ new.phase = Authed(c) /\ new.target = On(c) /\ new.user = thread[c].user
  BY <1>1, <1>3 DEF Thread, Phases, On
<1> HIDE DEF new
<1>5. /\ thread' \in [Threads -> Thread] /\ thread'[c] = new
      /\ \A d \in Threads \ {c} : thread'[d] = thread[d]
  BY <1>2, <1>4 DEF IInv, TypeOK
<1>6. /\ login' \in [Targets -> Login \cup {NoLogin}] /\ rewritten' \subseteq Targets
      /\ \A t \in Targets : /\ login[t] # NoLogin => login'[t] # NoLogin
                            /\ login'[t] = login[t] \/ login[t] = NoLogin \/ t \in rewritten'
      /\ rewritten \subseteq rewritten' /\ login'[On(c)] # NoLogin
  BY <1>1, NoneIsNoLogin DEF IInv, TypeOK
<1>8. ThreadOK(c)'
  BY <1>3, <1>4, <1>5, <1>6, OwnOK, <1>1 DEF ThreadOK, WorksOnTarget, HasLogin, AsConfirmed, KeyCleared, PaidEarlier,
       Missing, Serving, Proving, Running, Trying, On
<1> QED
  BY <1>5, <1>6, <1>8 DEF IInv

(* Suppress() adds to both sides of PaidIsSuppressed.                      *)
LEMMA SuppressOK ==
  ASSUME IInv, NEW c \in Threads, Suppress(c), On(c) \in Targets
  PROVE  /\ PaidIsSuppressed' /\ suppressed' \subseteq Targets
         /\ paid' \in [Threads -> SUBSET Targets]
         /\ \A d \in Threads \ {c} : paid'[d] = paid[d]
  BY DEF Suppress, IInv, TypeOK, PaidIsSuppressed

LEMMA PingIInv == ASSUME IInv, NEW c \in Threads, Ping(c) PROVE IInv'
<1>1. /\ thread[c].phase = "ping" /\ Missing(c)
      /\ UNCHANGED <<current, user, authVars, envVars>>
  BY DEF Ping, Missing
<1>2. On(c) \in Targets /\ thread[c].user \in Login
  BY <1>1, OwnOK DEF ThreadOK, WorksOnTarget, Login
<1>3. CASE Credentials(c) /\ Suppress(c)
  <2>1. TypeOK' /\ Frame(c)
    BY <1>1, <1>2, <1>3, CredentialsOK, SuppressOK DEF IInv, TypeOK, Frame, authVars, envVars
  <2> QED
    BY <1>1, <1>2, <1>3, <2>1, CredentialsOK, SuppressOK, ThreadStep DEF authVars
<1>4. CASE Tries(c, "probe", thread[c].user) /\ UNCHANGED <<shown, waitVars, dialogs>>
  <2>1. TypeOK' /\ Frame(c)
    BY <1>1, <1>2, <1>4, TriesOK DEF IInv, TypeOK, Frame, authVars, envVars, waitVars
  <2>2. ThreadOK(c)'
    BY <1>1, <1>2, <1>4, TriesOK, OwnOK DEF ThreadOK, WorksOnTarget, HasLogin, AsConfirmed, KeyCleared, PaidEarlier,
       Missing, Serving, Proving, Running, Trying, On,
       waitVars
  <2> QED
    BY <1>1, <1>4, <2>1, <2>2, ThreadStep DEF IInv, PaidIsSuppressed, authVars,
       waitVars
<1> QED
  BY <1>3, <1>4 DEF Ping

-----------------------------------------------------------------------------
LEMMA TriedOK ==
  ASSUME IInv, NEW c \in Threads, Tried(c)
  PROVE  /\ known' \in [Targets -> {"none", "current", "stale"}] /\ up' = up
         /\ \A t \in Targets : known'[t] = "stale" => known[t] = "stale"
         /\ thread[c].phase \in {"first", "again"} /\ On(c) \in Targets
         /\ current' = current /\ user' = user
         /\ thread[c].job = "probe" => Missing(c)
  BY OwnOK DEF Tried, IInv, TypeOK, ThreadOK, WorksOnTarget, Missing, Proving, Trying

LEMMA RetryIInv == ASSUME IInv, NEW c \in Threads, Retry(c) PROVE IInv'
<1>1. /\ Tried(c) /\ thread[c].phase = "first" /\ Goes(c, "unkey")
      /\ UNCHANGED <<shown, authVars, waitVars, dialogs, reflashed>>
  BY DEF Retry, Retries
<1>2. /\ thread' \in [Threads -> Thread] /\ thread'[c].phase = "unkey"
      /\ \A d \in Threads \ {c} : thread'[d] = thread[d]
      /\ \A f \in {"target", "user", "job", "mine", "error", "confirmed", "missed"} :
           thread'[c][f] = thread[c][f]
  BY <1>1, GoesTo, OwnOK DEF Phases, Trying
<1>3. TypeOK' /\ Frame(c)
  BY <1>1, <1>2, TriedOK DEF IInv, TypeOK, Frame, authVars, waitVars
<1>4. ThreadOK(c)'
  BY <1>1, <1>2, OwnOK DEF ThreadOK, WorksOnTarget, HasLogin, AsConfirmed, KeyCleared, PaidEarlier,
       Missing, Serving, Proving, Running, Trying, On,
     authVars, waitVars
<1> QED
  BY <1>1, <1>3, <1>4, TriedOK, ThreadStep DEF IInv, PaidIsSuppressed, authVars, waitVars

LEMMA ProvedIInv == ASSUME IInv, NEW c \in Threads, Proved(c) PROVE IInv'
<1>1. /\ Tried(c) /\ thread[c].job = "probe" /\ Store(c, thread[c].mine)
      /\ UNCHANGED <<shown, waitVars, dialogs, reflashed>>
  BY DEF Proved
<1>2. Missing(c) /\ thread[c].mine \in Login
  BY <1>1, TriedOK, OwnOK DEF ThreadOK, WorksOnTarget, Proving, Trying, Login
<1>3. TypeOK' /\ Frame(c)
  BY <1>1, <1>2, TriedOK, StoreOK DEF IInv, TypeOK, Frame, waitVars
<1> QED
  BY <1>1, <1>2, <1>3, TriedOK, StoreOK, ThreadStep DEF IInv, PaidIsSuppressed, waitVars

LEMMA FailedIInv == ASSUME IInv, NEW c \in Threads, Failed(c) PROVE IInv'
<1>1. Tried(c) /\ thread[c].job = "probe" /\ Suppress(c) /\ Credentials(c) /\ UNCHANGED authVars
  BY DEF Failed
<1>2. TypeOK' /\ Frame(c)
  BY <1>1, TriedOK, CredentialsOK, SuppressOK DEF IInv, TypeOK, Frame, authVars
<1> QED
  BY <1>1, <1>2, TriedOK, CredentialsOK, SuppressOK, ThreadStep DEF authVars

LEMMA RanIInv == ASSUME IInv, NEW c \in Threads, Ran(c) PROVE IInv'
<1> DEFINE new == [thread[c] EXCEPT !.phase = "ran", !.error = Outcome(c)]
<1>1. /\ Tried(c) /\ thread[c].job = "run" /\ thread[c] \in Thread
      /\ UNCHANGED <<shown, authVars, waitVars, dialogs, reflashed>>
  BY OwnOK DEF Ran
<1>2. thread' = [thread EXCEPT ![c] = new]
  BY <1>1 DEF Ran, IInv, TypeOK, Thread
<1>3. Outcome(c) \in {"ok", "away", "hostkey", "refused"}
  BY DEF Outcome
<1>4. /\ new \in Thread /\ new.phase = "ran" /\ new.target = On(c) /\ new.user = thread[c].user
      /\ new.missed = thread[c].missed /\ new.confirmed = thread[c].confirmed
  BY <1>1, <1>3 DEF Thread, Phases, On
<1> HIDE DEF new
<1>5. /\ thread' \in [Threads -> Thread] /\ thread'[c] = new
      /\ \A d \in Threads \ {c} : thread'[d] = thread[d]
  BY <1>2, <1>4 DEF IInv, TypeOK
<1>6. TypeOK' /\ Frame(c)
  BY <1>1, <1>5, TriedOK DEF IInv, TypeOK, Frame, authVars, waitVars
<1>7. ThreadOK(c)'
  BY <1>1, <1>4, <1>5, TriedOK, OwnOK DEF ThreadOK, WorksOnTarget, HasLogin, AsConfirmed, KeyCleared, PaidEarlier,
       Missing, Serving, Proving, Running, Trying, On,
     authVars, waitVars
<1> QED
  BY <1>1, <1>6, <1>7, TriedOK, ThreadStep DEF IInv, PaidIsSuppressed, authVars, waitVars

LEMMA UnkeyIInv == ASSUME IInv, NEW c \in Threads, Unkey(c) PROVE IInv'
<1>1. /\ thread[c].phase = "unkey" /\ Goes(c, "again") /\ known' = [known EXCEPT ![On(c)] = "none"]
      /\ UNCHANGED <<guiVars, authVars, waitVars, up, dialogs, reflashed>>
  BY DEF Unkey
<1>2. /\ thread' \in [Threads -> Thread] /\ thread'[c].phase = "again"
      /\ \A d \in Threads \ {c} : thread'[d] = thread[d]
      /\ \A f \in {"target", "user", "job", "mine", "error", "confirmed", "missed"} :
           thread'[c][f] = thread[c][f]
  BY <1>1, GoesTo, OwnOK DEF Phases, Trying
<1>3. /\ known' \in [Targets -> {"none", "current", "stale"}] /\ On(c) \in Targets
      /\ known'[On(c)] = "none" /\ \A t \in Targets : known'[t] = "stale" => known[t] = "stale"
  BY <1>1, OwnOK DEF IInv, TypeOK, ThreadOK, WorksOnTarget
<1>4. TypeOK' /\ Frame(c)
  BY <1>1, <1>2, <1>3 DEF IInv, TypeOK, Frame, guiVars, authVars, waitVars
<1>5. ThreadOK(c)'
  BY <1>1, <1>2, <1>3, OwnOK DEF ThreadOK, WorksOnTarget, HasLogin, AsConfirmed, KeyCleared, PaidEarlier,
       Missing, Serving, Proving, Running, Trying, On,
     authVars, waitVars
<1> QED
  BY <1>1, <1>4, <1>5, ThreadStep DEF IInv, PaidIsSuppressed, guiVars, authVars, waitVars

-----------------------------------------------------------------------------
LEMMA OfferIInv == ASSUME IInv, NEW c \in Threads, Offer(c) PROVE IInv'
<1> DEFINE new == [thread[c] EXCEPT !.phase = "confirm", !.confirmed = login[On(c)]]
<1>1. /\ thread[c].phase = "offer" /\ dialogs' = Append(dialogs, c) /\ thread[c] \in Thread
      /\ On(c) \in Targets /\ login[On(c)] \in Login \cup {NoLogin}
      /\ UNCHANGED <<guiVars, authVars, waitVars, envVars, reflashed>>
  BY OwnOK DEF Offer, ThreadOK, WorksOnTarget, TypeOK
<1>2. thread' = [thread EXCEPT ![c] = new]
  BY <1>1 DEF Offer, IInv, TypeOK, Thread
<1>3. /\ new \in Thread /\ new.phase = "confirm" /\ new.target = On(c)
      /\ new.user = thread[c].user /\ new.confirmed = login[On(c)]
  BY <1>1 DEF Thread, Phases, On
<1> HIDE DEF new
<1>4. /\ thread' \in [Threads -> Thread] /\ thread'[c] = new
      /\ \A d \in Threads \ {c} : thread'[d] = thread[d]
  BY <1>2, <1>3 DEF IInv, TypeOK
<1>5. TypeOK' /\ Frame(c)
  BY <1>1, <1>4 DEF IInv, TypeOK, Frame, guiVars, authVars, waitVars, envVars
<1>6. ThreadOK(c)'
  BY <1>1, <1>3, <1>4, OwnOK DEF ThreadOK, WorksOnTarget, HasLogin, AsConfirmed, KeyCleared, PaidEarlier,
     Missing, Serving, Proving, Running, Trying, On,
     authVars, waitVars
<1> QED
  BY <1>1, <1>5, <1>6, ThreadStep DEF IInv, PaidIsSuppressed, guiVars, authVars, waitVars

LEMMA CommandIInv == ASSUME IInv, NEW c \in Threads, Command(c) PROVE IInv'
<1>1. /\ MayRun(c) /\ Tries(c, "run", login[On(c)]) /\ Serving(c)
      /\ UNCHANGED <<guiVars, authVars, waitVars, envVars, dialogs>>
  BY DEF Command, MayRun, Serving
<1>2. On(c) \in Targets /\ login[On(c)] # NoLogin /\ login[On(c)] \in Login
  BY <1>1, OwnOK DEF ThreadOK, WorksOnTarget, HasLogin, MayRun, TypeOK
<1>3. TypeOK' /\ Frame(c)
  BY <1>1, <1>2, TriesOK DEF IInv, TypeOK, Frame, guiVars, authVars, waitVars, envVars
<1>4. ThreadOK(c)'
  BY <1>1, <1>2, TriesOK, OwnOK DEF ThreadOK, WorksOnTarget, HasLogin, AsConfirmed, KeyCleared, PaidEarlier,
     Missing, Serving, Proving, Running, Trying, On,
     authVars, waitVars, MayRun
<1> QED
  BY <1>1, <1>3, <1>4, ThreadStep DEF IInv, PaidIsSuppressed, guiVars, authVars, waitVars

LEMMA DoneIInv == ASSUME IInv, NEW c \in Threads, Done(c) PROVE IInv'
<1>1. /\ thread[c].phase = "ran" /\ Ends(c)
      /\ UNCHANGED <<current, user, authVars, waitVars, envVars, dialogs>>
  BY DEF Done
<1>2. login[On(c)] # NoLogin /\ On(c) \in Targets
  BY <1>1, OwnOK DEF ThreadOK, HasLogin, WorksOnTarget, Serving
<1>3. TypeOK' /\ Frame(c)
  BY <1>1, <1>2, EndsOK DEF IInv, TypeOK, Frame, authVars, waitVars, envVars
<1> QED
  BY <1>1, <1>2, <1>3, EndsOK, ThreadStep DEF IInv, PaidIsSuppressed, authVars, waitVars

LEMMA CloseOK == ASSUME TypeOK, NEW c, Innermost(c), Close PROVE dialogs' \in Seq(Threads)
  BY DEF TypeOK, Innermost, Close

LEMMA AnsweredIInv == ASSUME IInv, NEW c \in Threads, Answered(c) PROVE IInv'
<1>1. ASSUME NEW l \in {"typed", "mistyped"}, Type(c, l) PROVE IInv'
  <2>1. /\ Innermost(c) /\ Close /\ Store(c, l) /\ Missing(c) /\ l \in Login
        /\ UNCHANGED <<guiVars, waitVars, envVars, reflashed>>
    BY <1>1 DEF Type, Missing, Login
  <2>2. TypeOK' /\ Frame(c)
    BY <2>1, StoreOK, CloseOK DEF IInv, TypeOK, Frame, guiVars, waitVars, envVars
  <2> QED
    BY <2>1, <2>2, StoreOK, ThreadStep DEF IInv, PaidIsSuppressed, guiVars, waitVars
<1>2. ASSUME Confirm(c) PROVE IInv'
  <2>1. /\ Innermost(c) /\ Close /\ thread[c].phase = "confirm" /\ Goes(c, "ready")
        /\ UNCHANGED <<guiVars, authVars, waitVars, envVars, reflashed>>
    BY <1>2 DEF Confirm
  <2>2. /\ thread' \in [Threads -> Thread] /\ thread'[c].phase = "ready"
        /\ \A d \in Threads \ {c} : thread'[d] = thread[d]
        /\ \A f \in {"target", "user", "job", "mine", "error", "confirmed", "missed"} :
             thread'[c][f] = thread[c][f]
    BY <2>1, GoesTo, OwnOK DEF Phases, Trying
  <2>3. TypeOK' /\ Frame(c)
    BY <2>1, <2>2, CloseOK DEF IInv, TypeOK, Frame, guiVars, authVars, waitVars, envVars
  <2>4. ThreadOK(c)'
    BY <2>1, <2>2, OwnOK DEF ThreadOK, WorksOnTarget, HasLogin, AsConfirmed, KeyCleared, PaidEarlier,
     Missing, Serving, Proving, Running, Trying, On,
       authVars, waitVars
  <2> QED
    BY <2>1, <2>3, <2>4, ThreadStep DEF IInv, PaidIsSuppressed, guiVars, authVars, waitVars
<1>3. ASSUME Cancel(c) PROVE IInv'
  <2>1. /\ Innermost(c) /\ Close /\ thread[c].phase # "ran" /\ Ends(c)
        /\ UNCHANGED <<current, user, authVars, waitVars, envVars>>
    BY <1>3 DEF Cancel
  <2>2. TypeOK' /\ Frame(c)
    BY <2>1, EndsOK, CloseOK DEF IInv, TypeOK, Frame, authVars, waitVars, envVars
  <2> QED
    BY <2>1, <2>2, EndsOK, ThreadStep DEF IInv, PaidIsSuppressed, authVars, waitVars
<1> QED
  BY <1>1, <1>2, <1>3 DEF Answered

-----------------------------------------------------------------------------
(* Configure, time and the targets leave the threads alone.                *)
LEMMA ThreadsKept ==
  ASSUME IInv, TypeOK', UNCHANGED <<thread, login, rewritten>>, reflashed \subseteq reflashed',
         \A c \in Threads : paid'[c] \subseteq paid[c],
         \A c \in Threads, t \in Targets :
           On(c) = t /\ thread[c].phase = "again" /\ known'[t] = "stale" =>
             known[t] = "stale" \/ c \in reflashed'
  PROVE  \A c \in Threads : ThreadOK(c)'
<1> SUFFICES ASSUME NEW c \in Threads PROVE ThreadOK(c)'
  OBVIOUS
<1>1. KeyCleared(c)'
  BY OwnOK DEF KeyCleared, ThreadOK, WorksOnTarget, On
<1>2. PaidEarlier(c)'
  BY OwnOK DEF PaidEarlier, ThreadOK, Proving, On
<1> QED
  BY <1>1, <1>2, OwnOK DEF ThreadOK, WorksOnTarget, HasLogin, AsConfirmed, KeyCleared, PaidEarlier,
     Missing, Serving, Proving, Running, Trying, On

LEMMA WorldIInv ==
  ASSUME IInv, NEW t \in Targets,
         (\E u \in Users : Configure(t, u)) \/ Expire(t) \/ Away(t) \/ Back(t) \/ Reflash(t)
  PROVE  IInv'
<1>1. ASSUME NEW u \in Users, Configure(t, u) PROVE IInv'
  <2>1. /\ current' = t /\ user' = u /\ shown' = FALSE
        /\ UNCHANGED <<authVars, waitVars, envVars, thread, dialogs, reflashed>>
    BY <1>1 DEF Configure
  <2>2. TypeOK'
    BY <2>1 DEF IInv, TypeOK, authVars, waitVars, envVars
  <2> QED
    BY <2>1, <2>2, ThreadsKept DEF IInv, PaidIsSuppressed, authVars, waitVars, envVars
<1>2. ASSUME Expire(t) PROVE IInv'
  <2>1. /\ suppressed' = suppressed \ {t} /\ paid' = [c \in Threads |-> paid[c] \ {t}]
        /\ UNCHANGED <<guiVars, authVars, envVars, thread, dialogs, reflashed>>
    BY <1>2 DEF Expire
  <2>2. TypeOK'
    BY <2>1 DEF IInv, TypeOK, guiVars, authVars, envVars
  <2>3. PaidIsSuppressed' /\ \A c \in Threads : paid'[c] \subseteq paid[c]
    BY <2>1 DEF IInv, PaidIsSuppressed
  <2> QED
    BY <2>1, <2>2, <2>3, ThreadsKept DEF IInv, guiVars, authVars, envVars
<1>3. ASSUME Away(t) \/ Back(t) PROVE IInv'
  <2>1. /\ up' \subseteq Targets
        /\ UNCHANGED <<guiVars, authVars, waitVars, known, thread, dialogs, reflashed>>
    BY <1>3 DEF Away, Back, IInv, TypeOK
  <2>2. TypeOK'
    BY <2>1 DEF IInv, TypeOK, guiVars, authVars, waitVars
  <2> QED
    BY <2>1, <2>2, ThreadsKept DEF IInv, PaidIsSuppressed, guiVars, authVars, waitVars
<1>4. ASSUME Reflash(t) PROVE IInv'
  <2>1. /\ known' = [known EXCEPT ![t] = "stale"]
        /\ reflashed' = reflashed \cup {c \in Threads : On(c) = t /\ thread[c].phase \in Trying}
        /\ UNCHANGED <<guiVars, authVars, waitVars, up, thread, dialogs>>
    BY <1>4 DEF Reflash
  <2>2. TypeOK'
    BY <2>1 DEF IInv, TypeOK, guiVars, authVars, waitVars
  <2>3. \A c \in Threads, s \in Targets :
          On(c) = s /\ thread[c].phase = "again" /\ known'[s] = "stale" =>
            known[s] = "stale" \/ c \in reflashed'
    BY <2>1 DEF IInv, TypeOK, Trying
  <2> QED
    BY <2>1, <2>2, <2>3, ThreadsKept DEF IInv, PaidIsSuppressed, guiVars, authVars,
       waitVars
<1> QED
  BY <1>1, <1>2, <1>3, <1>4

LEMMA StutterIInv == IInv /\ UNCHANGED vars => IInv'
<1> SUFFICES ASSUME IInv, UNCHANGED vars PROVE IInv'
  OBVIOUS
<1>1. TypeOK'
  BY DEF IInv, TypeOK, vars, guiVars, authVars, waitVars, envVars
<1> QED
  BY <1>1, ThreadsKept DEF IInv, PaidIsSuppressed, vars, guiVars, authVars,
     waitVars, envVars

LEMMA NextIInv == IInv /\ [Next]_vars => IInv'
<1> SUFFICES ASSUME IInv, [Next]_vars PROVE IInv'
  OBVIOUS
<1>1. ASSUME NEW c \in Threads, Works(c) \/ Answered(c) PROVE IInv'
  BY <1>1, LookupIInv, SkipProbeIInv, PingIInv, RetryIInv, UnkeyIInv, ProvedIInv,
     FailedIInv, RanIInv, OfferIInv, CommandIInv, DoneIInv, AnsweredIInv DEF Works
<1>2. ASSUME Toggle \/ (\E c \in Threads : Install(c) \/ Query(c)) PROVE IInv'
  <2>1. \E c \in Threads, asks \in BOOLEAN : Starts(c, asks) /\ shown' \in BOOLEAN
    BY <1>2 DEF Toggle, Install, Query, Threads, IInv, TypeOK
  <2> QED
    BY <2>1, StartIInv
<1> QED
  BY <1>1, <1>2, WorldIInv, StutterIInv DEF Next

THEOREM IInvAlways == Spec => []IInv
  BY InitIInv, NextIInv, PTL DEF Spec

-----------------------------------------------------------------------------
(* The local variables of the threads, the dialogs and the tables of       *)
(* TargetSsh keep their types.                                             *)
THEOREM AuthTypeCorrect == Spec => []TypeOK
<1>1. IInv => TypeOK
  BY DEF IInv
<1> QED
  BY <1>1, IInvAlways, PTL

(* runWithHostKeyRetry(): whatever the other threads do to known_hosts, a  *)
(* second attempt only meets a stale key if the target was reflashed       *)
(* during this attempt.                                                    *)
THEOREM StaleKeysHarmless == Spec => []HostKeyHarmless
<1>1. IInv => HostKeyHarmless
  BY DEF IInv, ThreadOK, KeyCleared, HostKeyHarmless, Outcome
<1> QED
  BY <1>1, IInvAlways, PTL

(* passwordlessProbeFailedUntil_: no thread waits for the same failing     *)
(* login twice while it is suppressed.                                     *)
THEOREM FailurePaidOnce == Spec => []PaysOnce
<1>1. IInv => PaysOnce
  BY DEF IInv, ThreadOK, PaidEarlier, Proving, PaysOnce, Trying
<1> QED
  BY <1>1, IInvAlways, PTL

(* The confirmation of an install tells the login of its commands, if no   *)
(* other thread overwrote it.                                              *)
THEOREM InstallsAsConfirmed == Spec => []CommandsAsConfirmed
<1>1. IInv => CommandsAsConfirmed
  BY ThreadsAssumption DEF IInv, ThreadOK, AsConfirmed, Running, CommandsAsConfirmed, Threads
<1> QED
  BY <1>1, IInvAlways, PTL

(* ensureAuth(): a login is only replaced by a thread that looked for it   *)
(* before it was there.                                                    *)
LEMMA SettlesStep ==
  ASSUME IInv, [Next]_vars, NEW t \in Targets, login[t] # NoLogin, login'[t] # login[t]
  PROVE  \E c \in Threads : On(c) = t /\ thread[c].missed /\ ~thread'[c].missed
<1>1. ASSUME NEW c \in Threads, NEW l, Store(c, l), Missing(c)
      PROVE  \E d \in Threads : On(d) = t /\ thread[d].missed /\ ~thread'[d].missed
  <2>1. login' = [login EXCEPT ![On(c)] = l] /\ On(c) = t
    BY <1>1 DEF Store, IInv, TypeOK
  <2>2. thread' = [thread EXCEPT ![c] = [thread[c] EXCEPT !.phase = Authed(c), !.missed = FALSE]]
    BY <1>1 DEF Store, IInv, TypeOK
  <2>3. thread[c] \in Thread /\ thread[c].missed
    BY <1>1, OwnOK DEF ThreadOK, WorksOnTarget
  <2>4. ~thread'[c].missed
    BY <2>2, <2>3 DEF IInv, TypeOK, Thread
  <2> QED
    BY <2>1, <2>3, <2>4
<1>2. ASSUME NEW c \in Threads, Works(c) \/ Answered(c)
      PROVE  \E l : Store(c, l) /\ Missing(c)
  <2>1. ASSUME ~Proved(c), \A l \in {"typed", "mistyped"} : ~Type(c, l) PROVE login' = login
    BY <1>2, <2>1 DEF Works, Answered, Lookup, Looked,
       SkipProbe, Ping, Retry, Unkey, Failed, Ran, Offer, Command, Done, Confirm, Cancel, authVars
  <2>2. Proved(c) => Store(c, thread[c].mine) /\ Missing(c)
    BY TriedOK DEF Proved
  <2>3. \A l \in {"typed", "mistyped"} : Type(c, l) => Store(c, l) /\ Missing(c)
    BY DEF Type, Missing
  <2> QED
    BY <2>1, <2>2, <2>3
<1>3. (\E s \in Targets, u \in Users : Configure(s, u)) \/ UNCHANGED vars
      \/ Toggle \/ (\E c \in Threads : Install(c) \/ Query(c))
      \/ (\E s \in Targets : Expire(s) \/ Away(s) \/ Back(s) \/ Reflash(s)) => login' = login
  BY DEF Toggle, Install, Query, Starts, Configure, Expire, Away, Back, Reflash, vars, authVars
<1> QED
  BY <1>1, <1>2, <1>3 DEF Next

THEOREM LoginsSettle == Spec => LoginSettles
<1>1. IInv /\ [Next]_vars => [\A t \in Targets : login[t] # NoLogin /\ login'[t] # login[t] =>
        \E c \in Threads : On(c) = t /\ thread[c].missed /\ ~thread'[c].missed]_vars
  BY SettlesStep
<1> QED
  BY <1>1, IInvAlways, PTL DEF Spec, LoginSettles

-----------------------------------------------------------------------------
(* The stack of dialogs.                                                   *)

Waits(c) == thread[c].phase \in {"prompt", "confirm"}
Becomes(c, p) == thread'[c].phase = p /\ \A d \in Threads \ {c} : thread'[d] = thread[d]

\* Where the ways to leave a phase lead to.
LEMMA Moves ==
  ASSUME TypeOK, NEW c \in Threads
  PROVE  /\ \A p \in Phases : Goes(c, p) => Becomes(c, p)
         /\ \A p : Looked(c, p) => Becomes(c, p)
         /\ Ends(c) => Becomes(c, "idle")
         /\ \A what, with : Tries(c, what, with) => Becomes(c, "first")
         /\ \A l : Store(c, l) => Becomes(c, Authed(c))
         /\ Authed(c) \in {"offer", "ready"}
<1> thread \in [Threads -> Thread] /\ thread[c] \in Thread
  BY DEF TypeOK
<1>1. \A p \in Phases : Goes(c, p) => Becomes(c, p)
  BY DEF Goes, Becomes, Thread
<1>2. \A p : Looked(c, p) => Becomes(c, p)
  BY DEF Looked, Becomes, Thread
<1>3. Ends(c) => Becomes(c, "idle")
  BY IdleIsThread DEF Ends, Becomes
<1>4. \A what, with : Tries(c, what, with) => Becomes(c, "first")
  BY DEF Tries, Becomes, Thread
<1>5. \A l : Store(c, l) => Becomes(c, Authed(c))
  BY DEF Store, Becomes, Thread
<1> QED
  BY <1>1, <1>2, <1>3, <1>4, <1>5 DEF Authed

LEMMA DialogsStay ==
  ASSUME DialogsAreAwaited, NEW c \in Threads, ~Waits(c), dialogs' = dialogs,
         NEW p, p \notin {"prompt", "confirm"}, Becomes(c, p)
  PROVE  DialogsAreAwaited'
  BY DEF DialogsAreAwaited, Waits, Becomes

LEMMA DialogOpens ==
  ASSUME TypeOK, DialogsAreAwaited, NEW c \in Threads, ~Waits(c), dialogs' = Append(dialogs, c),
         NEW p \in {"prompt", "confirm"}, Becomes(c, p)
  PROVE  DialogsAreAwaited'
<1> DEFINE n == Len(dialogs) + 1
<1>1. /\ n \in Nat /\ 1..Len(dialogs') = 1..n /\ dialogs'[n] = c
      /\ \A i \in 1..n : i # n => i \in 1..Len(dialogs) /\ dialogs'[i] = dialogs[i]
      /\ \A i \in 1..Len(dialogs) : i \in 1..n /\ i # n
  BY DEF TypeOK
<1>2. \A i \in 1..Len(dialogs) : dialogs[i] # c
  BY DEF DialogsAreAwaited, Waits
<1> HIDE DEF n
<1>3. n \in 1..n
  BY <1>1 DEF n
<1>4. ASSUME NEW d \in Threads
      PROVE  Waits(d)' <=> \E i \in 1..n : dialogs'[i] = d
  <2>1. CASE d = c
    BY <1>1, <1>3, <2>1 DEF Becomes, Waits
  <2>2. CASE d # c
    <3>1. Waits(d)' <=> \E i \in 1..Len(dialogs) : dialogs[i] = d
      BY <2>2 DEF Becomes, Waits, DialogsAreAwaited
    <3> QED
      BY <1>1, <2>2, <3>1
  <2> QED
    BY <2>1, <2>2
<1>5. \A i, j \in 1..n : dialogs'[i] = dialogs'[j] => i = j
  BY <1>1, <1>2 DEF DialogsAreAwaited
<1> QED
  BY <1>1, <1>4, <1>5 DEF DialogsAreAwaited, Waits

LEMMA DialogCloses ==
  ASSUME TypeOK, DialogsAreAwaited, NEW c \in Threads, Innermost(c), Close,
         NEW p, p \notin {"prompt", "confirm"}, Becomes(c, p)
  PROVE  DialogsAreAwaited'
<1> DEFINE n == Len(dialogs)
<1>1. /\ n \in 1..n /\ dialogs[n] = c /\ 1..Len(dialogs') = 1..(n - 1)
      /\ \A i \in 1..(n - 1) : i \in 1..n /\ i # n /\ dialogs'[i] = dialogs[i]
      /\ \A i \in 1..n : i # n => i \in 1..(n - 1)
  BY DEF Innermost, Close, TypeOK
<1> HIDE DEF n
<1>2. ASSUME NEW d \in Threads
      PROVE  Waits(d)' <=> \E i \in 1..(n - 1) : dialogs'[i] = d
  <2>1. CASE d = c
    <3>1. \A i \in 1..(n - 1) : dialogs'[i] # c
      BY <1>1 DEF DialogsAreAwaited, n
    <3>2. ~Waits(c)'
      BY DEF Becomes, Waits
    <3> QED
      BY <2>1, <3>1, <3>2
  <2>2. CASE d # c
    <3>1. Waits(d)' <=> \E i \in 1..n : dialogs[i] = d
      BY <2>2 DEF Becomes, Waits, DialogsAreAwaited, n
    <3> QED
      BY <1>1, <2>2, <3>1
  <2> QED
    BY <2>1, <2>2
<1>3. \A i, j \in 1..(n - 1) : dialogs'[i] = dialogs'[j] => i = j
  BY <1>1 DEF DialogsAreAwaited, n
<1> QED
  BY <1>1, <1>2, <1>3 DEF DialogsAreAwaited, Waits

LEMMA CredentialsAwaited ==
  ASSUME TypeOK, DialogsAreAwaited, NEW c \in Threads, ~Waits(c), Credentials(c)
  PROVE  DialogsAreAwaited'
<1>1. CASE thread[c].asks
  BY <1>1, Moves, DialogOpens DEF Credentials, Phases
<1>2. CASE ~thread[c].asks
  BY <1>2, Moves, DialogsStay DEF Credentials
<1> QED
  BY <1>1, <1>2

LEMMA AwaitedStep == TypeOK /\ DialogsAreAwaited /\ [Next]_vars => DialogsAreAwaited'
<1> SUFFICES ASSUME TypeOK, DialogsAreAwaited, [Next]_vars PROVE DialogsAreAwaited'
  OBVIOUS
<1> USE DEF Waits
<1>k. UNCHANGED <<thread, dialogs>> => DialogsAreAwaited'
  BY DEF DialogsAreAwaited
<1>1. ASSUME NEW c \in Threads, Works(c) PROVE DialogsAreAwaited'
  <2>1. CASE Lookup(c)
    BY <2>1, Moves, DialogsStay DEF Lookup, Looked
  <2>2. CASE SkipProbe(c)
    BY <2>2, Moves, DialogsStay, CredentialsAwaited DEF SkipProbe, Phases
  <2>3. CASE Ping(c)
    BY <2>3, Moves, DialogsStay, CredentialsAwaited DEF Ping
  <2>4. CASE Retry(c) \/ Unkey(c)
    BY <2>4, Moves, DialogsStay DEF Retry, Unkey, Retries, Phases, Trying
  <2>5. CASE Proved(c)
    BY <2>5, Moves, DialogsStay DEF Proved, Tried
  <2>6. CASE Failed(c)
    BY <2>6, CredentialsAwaited DEF Failed, Tried
  <2>7. CASE Ran(c)
    <3>1. Becomes(c, "ran")
      BY <2>7 DEF Ran, Becomes, TypeOK, Thread
    <3> QED
      BY <2>7, <3>1, DialogsStay DEF Ran, Tried
  <2>8. CASE Offer(c)
    <3>1. Becomes(c, "confirm")
      BY <2>8 DEF Offer, Becomes, TypeOK, Thread
    <3> QED
      BY <2>8, <3>1, DialogOpens DEF Offer
  <2>9. CASE Command(c) \/ Done(c)
    BY <2>9, Moves, DialogsStay DEF Command, MayRun, Done
  <2> QED
    BY <1>1, <2>1, <2>2, <2>3, <2>4, <2>5, <2>6, <2>7, <2>8, <2>9 DEF Works
<1>2. ASSUME NEW c \in Threads, Answered(c) PROVE DialogsAreAwaited'
  <2>1. Innermost(c) /\ Close
    BY <1>2 DEF Answered, Type, Confirm, Cancel
  <2>2. \E p \in {"offer", "ready", "idle"} : Becomes(c, p)
    BY <1>2, Moves DEF Answered, Type, Confirm, Cancel, Phases
  <2> QED
    BY <2>1, <2>2, DialogCloses
<1>3. ASSUME NEW c \in Threads, NEW asks, Starts(c, asks) PROVE DialogsAreAwaited'
  <2>1. thread[c].phase = "idle" /\ dialogs' = dialogs
    BY <1>3, IdleIsThread DEF Starts
  <2>2. Becomes(c, "lookup")
    BY <1>3, IdleIsThread DEF Starts, Becomes, TypeOK, Idle, Thread
  <2> QED
    BY <2>1, <2>2, DialogsStay
<1>4. CASE Toggle \/ (\E c \in Threads : Install(c) \/ Query(c))
  BY <1>3, <1>4 DEF Toggle, Install, Query, Threads
<1>5. CASE \/ \E t \in Targets, u \in Users : Configure(t, u)
           \/ \E t \in Targets : Expire(t) \/ Away(t) \/ Back(t) \/ Reflash(t)
           \/ UNCHANGED vars
  BY <1>5, <1>k DEF Configure, Expire, Away, Back, Reflash, vars
<1> QED
  BY <1>1, <1>2, <1>4, <1>5 DEF Next

(* Whoever asks the user has exactly one dialog, and every dialog has who  *)
(* waits for it: threads whose dialogs lie on top of each other go on one  *)
(* after the other as the user answers, and nobody waits for ever for a    *)
(* dialog that is not there.                                               *)
THEOREM DialogsHaveWaiters == Spec => []DialogsAreAwaited
<1>1. Init => DialogsAreAwaited
  BY IdleIsThread DEF Init, DialogsAreAwaited
<1> QED
  BY <1>1, AwaitedStep, AuthTypeCorrect, PTL DEF Spec
=============================================================================
