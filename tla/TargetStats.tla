---------------------------- MODULE TargetStats ----------------------------
(***************************************************************************)
(* The live statistics of one camera: TargetStatsStream holds an ssh whose *)
(* remote tail follows the camera's logs on the target, TargetStatsParser  *)
(* keeps the numbers, and MainWindow prints a row of them every 5 s.  Stop *)
(* kills the ssh and sends a kill to the pid the tail announced.           *)
(*                                                                         *)
(* Times are ages in ticks, capped just above the limit they are held      *)
(* against.  Of the lines of the logs, those that tell a row's state are   *)
(* modelled; the injector's own counters and the sizes are not.  A call    *)
(* of an application is one that hands a frame back.                       *)
(***************************************************************************)
EXTENDS Integers, Sequences, FiniteSetsExt

CONSTANTS
  Pids,        \* process numbers of the target
  Clients,     \* numbers the shim server gives its applications
  Stale,       \* kStaleMs, in ticks
  Stall,       \* a row says that an application stalled after this
  Budgets,     \* bound: what else happens in a behaviour, see Budget
  MaxCount,    \* bound: frames an application hands back
  MaxLines     \* bound: lines on their way

ASSUME LimitsAssumption == Stall \in Nat /\ Stale \in Nat /\ Stall < Stale
(* How many streams and applications start, how many processes of others   *)
(* start or lines mention a process, how often the target fails.           *)
Budget == [streams : Nat, apps : Nat, others : Nat, faults : Nat]
ASSUME BudgetsAssumption == Budgets \subseteq Budget
ASSUME PidsAssumption == Pids \subseteq Nat \ {0}
ASSUME LinesAssumption == MaxCount \in Nat /\ MaxLines \in Nat

VARIABLES
  ssh,         \* proc_: "none", "connecting", "open", or "over" (finished)
  pid,         \* remotePid_
  killers,     \* the pids that the kill commands on their way are for
  lines,       \* what the tail has sent and onReadyRead() has not taken
  receiver,    \* age of the last publish line, see Never
  apps,        \* apps_, see Entry
  up,          \* the target can be reached
  procs,       \* its processes
  tail,        \* the one that writes to ssh, or 0
  client,      \* the applications at the shim server
  budget,      \* bound: how much of the budget is left
  lost,        \* history: pids whose tail ended on its own while we held them
  renumbered   \* history: the server started anew during this stream

streamVars == <<ssh, pid, killers>>
parserVars == <<receiver, apps>>
procVars == <<procs, tail, lost>>
appVars == <<client, renumbered>>
statsVars == <<streamVars, lines, parserVars, up, procVars, appVars, budget>>

Never == Stale + 1
Aged(age, limit) == IF age > limit THEN age ELSE age + 1

None == [app |-> 0]
App == [app : Nat \ {0}, count : 0..MaxCount, idle : 0..(Stall + 1)]
Entry == [app : Nat \ {0}, count : 0..MaxCount, idle : 0..(Stall + 1),
          age : 0..Never,
          haveRate : BOOLEAN, frames : 0..MaxCount,  \* fps, as frames of an interval
          mixed : BOOLEAN]          \* history: a rate from two applications

StatsInit ==
  /\ ssh = "none" /\ pid = 0 /\ killers = {} /\ lines = <<>>
  /\ receiver = Never /\ apps = [c \in Clients |-> None]
  /\ up = TRUE /\ procs = [p \in Pids |-> "free"] /\ tail = 0
  /\ client = [c \in Clients |-> None] /\ budget \in Budgets
  /\ lost = {} /\ renumbered = FALSE

Spend(what) == budget[what] > 0 /\ budget' = [budget EXCEPT ![what] = @ - 1]

-----------------------------------------------------------------------------
(* The stream, on the GUI thread.                                          *)

(* The target answered READY and ssh has a login for it.                   *)
StartStream ==
  /\ ssh = "none" /\ Spend("streams")
  /\ ssh' = "connecting" /\ renumbered' = FALSE
  /\ UNCHANGED <<pid, killers, lines, parserVars, up, procVars, client>>

(* The shell prints its number and becomes the tail.                       *)
Connect ==
  /\ ssh = "connecting" /\ up
  /\ \E p \in Pids :
       /\ procs[p] = "free"
       /\ procs' = [procs EXCEPT ![p] = "tail"] /\ tail' = p
       /\ lines' = <<[kind |-> "PID", pid |-> p]>>
  /\ ssh' = "open"
  /\ UNCHANGED <<pid, killers, parserVars, up, lost, appVars, budget>>

(* onFinished(): the connection failed or broke; proc_ stays.              *)
Finish ==
  /\ ssh \in {"connecting", "open"} /\ ~up
  /\ ssh' = "over" /\ lines' = <<>> /\ tail' = 0
  /\ UNCHANGED <<pid, killers, parserVars, up, procs, lost, appVars, budget>>

(* Tails that no one will kill: their number was not read in time.         *)
Unread == {p \in Pids : procs[p] = "tail" /\ p \notin killers \cup {pid}}
(* Variant: stop() forgets the tail.                                        *)
KillingNothing == killers
Killing == killers \cup ({pid} \ {0})
StopStreamWith(ks) ==
  /\ ssh # "none"
  /\ ssh' = "none" /\ pid' = 0 /\ killers' = ks
  /\ lines' = <<>> /\ tail' = 0
  /\ receiver' = Never /\ apps' = [c \in Clients |-> None]
  /\ \/ procs' = [p \in Pids |-> IF p \in Unread THEN "left" ELSE procs[p]]
     \/ \* the command was already on its way when ssh was killed
        /\ ssh = "connecting" /\ up
        /\ \E q \in Pids : procs[q] = "free" /\ procs' = [procs EXCEPT ![q] = "left"]
  /\ UNCHANGED <<up, lost, appVars, budget>>
StopStream == StopStreamWith(Killing)

(* The kill command arrives, or is given up: of a tail whose stream is     *)
(* over, no one is left who would kill it.                                 *)
Kill(p) ==
  /\ p \in killers /\ up
  /\ killers' = killers \ {p}
  /\ procs' = [procs EXCEPT ![p] = "free"]
  /\ tail' = IF tail = p THEN 0 ELSE tail
  /\ UNCHANGED <<ssh, pid, lines, parserVars, up, lost, appVars, budget>>

GiveUp(p) ==
  /\ p \in killers /\ ~up
  /\ killers' = killers \ {p}
  /\ procs' = IF procs[p] = "tail" /\ p \notin {tail, pid}
              THEN [procs EXCEPT ![p] = "left"] ELSE procs
  /\ UNCHANGED <<ssh, pid, lines, parserVars, up, tail, lost, appVars, budget>>

-----------------------------------------------------------------------------
(* The parser.  A line about an application is held against the one before *)
(* it about the same number; the pid in it is not looked at.               *)
Rated(old, l) == old # None /\ l.count >= old.count /\ old.age > 0
(* Variant: the time of the first report is kept.                          *)
SampleKeepsAge(l) ==
  LET old == apps[l.client] IN
  [app |-> l.app, count |-> l.count, idle |-> l.idle,
   age |-> IF old = None THEN 0 ELSE old.age,
   haveRate |-> Rated(old, l), frames |-> IF Rated(old, l) THEN l.count - old.count ELSE 0,
   mixed |-> Rated(old, l) /\ old.app # l.app]
Sample(l) ==
  LET old == apps[l.client] IN
  [app |-> l.app, count |-> l.count, idle |-> l.idle, age |-> 0,
   haveRate |-> Rated(old, l), frames |-> IF Rated(old, l) THEN l.count - old.count ELSE 0,
   mixed |-> Rated(old, l) /\ old.app # l.app]

(* Variant: an application that detached is kept.                          *)
FeedNoDetach(l) ==
  /\ receiver' = IF l.kind = "publish" THEN 0 ELSE receiver
  /\ apps' = IF l.kind = "client" THEN [apps EXCEPT ![l.client] = Sample(l)] ELSE apps
Feed(l) ==
  /\ receiver' = IF l.kind = "publish" THEN 0 ELSE receiver
  /\ apps' = CASE l.kind = "client" -> [apps EXCEPT ![l.client] = Sample(l)]
               [] l.kind = "detached" -> [apps EXCEPT ![l.client] = None]
               [] OTHER -> apps

(* Variant: any line that begins like the announcement is one.             *)
HandleEveryPid(l) ==
  IF l.kind = "PID"
    THEN pid' = l.pid /\ UNCHANGED parserVars
    ELSE Feed(l) /\ UNCHANGED pid
HandleLine(l) ==
  IF pid = 0 /\ l.kind = "PID"
    THEN pid' = l.pid /\ UNCHANGED parserVars
    ELSE Feed(l) /\ UNCHANGED pid

Read ==
  /\ ssh = "open" /\ up /\ lines # <<>>
  /\ HandleLine(Head(lines)) /\ lines' = Tail(lines)
  /\ UNCHANGED <<ssh, killers, up, procVars, appVars, budget>>

(* snapshot() and the state of the row that formatTargetStatsReport()      *)
(* prints.  The applications are started and not paused; of a camera       *)
(* without one, the row says "no app" here for whatever it says.           *)
(* Variant: the last rate is shown for ever.                               *)
HaveReceiverEver == receiver <= Stale + 1
HaveReceiver == receiver <= Stale
Shown == {c \in Clients : apps[c] # None /\ apps[c].age <= Stale}
LastCall == Min({apps[c].idle + apps[c].age : c \in Shown})
Row ==
  CASE ~HaveReceiver -> "no data"
    [] HaveReceiver /\ Shown = {} -> "no app"
    [] HaveReceiver /\ Shown # {} ->
         IF LastCall > Stall THEN "APP STALLED"
         ELSE IF \A c \in Shown : apps[c].haveRate /\ apps[c].frames = 0
              THEN "APP NOT CONSUMING" ELSE "injecting"

-----------------------------------------------------------------------------
(* The target: its logs, applications and processes.                       *)

(* A line is written to a log: the tail sends it, and a tail whose         *)
(* connection is gone ends as it tries to.                                 *)
Orphans == {p \in Pids : procs[p] \in {"tail", "left"} /\ p # tail}
Write(l) ==
  /\ Len(lines) < MaxLines
  /\ lines' = IF tail # 0 THEN Append(lines, l) ELSE lines
  /\ procs' = [p \in Pids |-> IF p \in Orphans THEN "free" ELSE procs[p]]
  /\ lost' = lost \cup (Orphans \cap (killers \cup {pid}))
  /\ UNCHANGED <<streamVars, parserVars, up, tail>>

Publish == Write([kind |-> "publish"]) /\ UNCHANGED <<appVars, budget>>
(* A line of the logs that begins like the announcement.                   *)
Mention(p) == Spend("others") /\ Write([kind |-> "PID", pid |-> p]) /\ UNCHANGED appVars
Report(c) ==
  /\ client[c] # None
  /\ Write([kind |-> "client", client |-> c, app |-> client[c].app,
            count |-> client[c].count, idle |-> client[c].idle])
  /\ UNCHANGED <<appVars, budget>>

Attach(c) ==
  /\ client[c] = None /\ Spend("apps")
  /\ client' = [client EXCEPT ![c] = [app |-> budget.apps, count |-> 0, idle |-> 0]]
  /\ UNCHANGED <<streamVars, lines, parserVars, up, procVars, renumbered>>
Call(c) ==
  /\ client[c] # None /\ client[c].count < MaxCount
  /\ client' = [client EXCEPT ![c].count = @ + 1, ![c].idle = 0]
  /\ UNCHANGED <<streamVars, lines, parserVars, up, procVars, renumbered, budget>>
Detach(c) ==
  /\ client[c] # None
  /\ client' = [client EXCEPT ![c] = None]
  /\ Write([kind |-> "detached", client |-> c])
  /\ UNCHANGED <<renumbered, budget>>
(* A new server gives its numbers out anew, and the log does not say so.   *)
Renumber ==
  /\ Spend("faults")
  /\ client' = [c \in Clients |-> None] /\ renumbered' = TRUE
  /\ UNCHANGED <<streamVars, lines, parserVars, up, procVars>>

Spawn(p) ==
  /\ procs[p] = "free" /\ procs' = [procs EXCEPT ![p] = "other"] /\ Spend("others")
  /\ UNCHANGED <<streamVars, lines, parserVars, up, tail, lost, appVars>>
Away ==
  /\ up /\ Spend("faults") /\ up' = FALSE
  /\ UNCHANGED <<streamVars, lines, parserVars, procVars, appVars>>
Back == ~up /\ up' = TRUE
        /\ UNCHANGED <<streamVars, lines, parserVars, procVars, appVars, budget>>
Reboot ==
  /\ ~up /\ Spend("faults")
  /\ lost' = lost \cup {p \in killers \cup {pid} : p # 0}
  /\ procs' = [p \in Pids |-> "free"] /\ tail' = 0 /\ lines' = <<>>
  /\ client' = [c \in Clients |-> None] /\ renumbered' = TRUE
  /\ UNCHANGED <<streamVars, parserVars, up>>

StatsTick ==
  /\ receiver' = Aged(receiver, Stale)
  /\ apps' = [c \in Clients |->
       IF apps[c] = None THEN None ELSE [apps[c] EXCEPT !.age = Aged(@, Stale)]]
  /\ client' = [c \in Clients |->
       IF client[c] = None THEN None ELSE [client[c] EXCEPT !.idle = Aged(@, Stall)]]
  /\ UNCHANGED <<streamVars, lines, up, procVars, renumbered, budget>>

-----------------------------------------------------------------------------
StatsNext ==
  \/ StartStream \/ Connect \/ Finish \/ StopStream \/ Read
  \/ Publish \/ Renumber \/ Away \/ Back \/ Reboot \/ StatsTick
  \/ \E p \in Pids : Kill(p) \/ GiveUp(p) \/ Mention(p) \/ Spawn(p)
  \/ \E c \in Clients : Report(c) \/ Attach(c) \/ Call(c) \/ Detach(c)

StatsSpec == StatsInit /\ [][StatsNext]_statsVars
(* Time passes, and a kill command arrives or is given up.  Nothing is     *)
(* asked of the user, the applications or the target.                      *)
StatsFairSpec ==
  /\ StatsSpec /\ WF_statsVars(StatsTick)
  /\ \A p \in Pids : WF_statsVars(Kill(p) \/ GiveUp(p))

-----------------------------------------------------------------------------
(* A kill command is for the tail of a stream that was stopped and that    *)
(* runs, or for a pid whose tail has ended on its own: neither a line of   *)
(* the logs nor a second session makes Stop kill something else            *)
(* (handleLine(), stop()).                                                 *)
KillsOldTails ==
  \A p \in killers : (procs[p] = "tail" /\ p # tail) \/ p \in lost

(* No tail stays on the target after Stop, unless Stop came before its     *)
(* number was read, or the kill did not reach the target: the promise of   *)
(* ADR 0017, as far as the code keeps it.                                  *)
TailsEnd ==
  \A p \in Pids : (ssh = "none" /\ procs[p] = "tail") ~> (procs[p] # "tail")

(* The rate of an application, and so APP NOT CONSUMING, compares two      *)
(* reports of the same one, also where the server gives the number of one  *)
(* that left to another; only a server that started anew can break this,   *)
(* as feed() compares no pids.                                             *)
RateOfOneApp ==
  \A c \in Clients : apps[c] # None /\ apps[c].haveRate /\ apps[c].mixed => renumbered

(* A row says APP STALLED only if every application on it has not called   *)
(* for that long, or the log's word of its last call is still on its way.  *)
StalledIsTrue ==
  Row = "APP STALLED" =>
    \A c \in Shown :
      client[c].app = apps[c].app /\ client[c].count = apps[c].count => client[c].idle > Stall

(* While the target is away, or after the ssh has ended, the rows come to  *)
(* say that there is no data, whatever they said last: the session goes on *)
(* and nothing else tells (snapshot(), onFinished()).                      *)
SilenceIsShown == (ssh = "over" \/ ~up) ~> (Row = "no data" \/ (ssh # "over" /\ up))

(* The part of TailsEnd that needs no fairness: a tail that this program   *)
(* left running, and might still know, has a kill on its way, through any  *)
(* number of streams; the next stream starts without the pid of the last.  *)
TailsAreFollowed ==
  /\ ssh \in {"none", "connecting"} => pid = 0
  /\ ssh # "over" =>
       \A p \in Pids : procs[p] = "tail" => p \in killers \/ p \in {tail, pid}

-----------------------------------------------------------------------------
(* What the properties rest on.                                            *)

Line ==
  [kind : {"PID"}, pid : Pids] \cup [kind : {"publish"}]
    \cup [kind : {"client"}, client : Clients, app : Nat \ {0}, count : 0..MaxCount,
          idle : 0..(Stall + 1)]
    \cup [kind : {"detached"}, client : Clients]

StatsTypeOK ==
  /\ ssh \in {"none", "connecting", "open", "over"}
  /\ pid \in Pids \cup {0} /\ killers \subseteq Pids /\ lines \in Seq(Line)
  /\ receiver \in 0..Never /\ apps \in [Clients -> Entry \cup {None}]
  /\ up \in BOOLEAN
  /\ procs \in [Pids -> {"free", "tail", "left", "other"}] /\ tail \in Pids \cup {0}
  /\ client \in [Clients -> App \cup {None}] /\ budget \in Budget
  /\ lost \subseteq Pids /\ renumbered \in BOOLEAN

(* A tail writes to an open ssh only; its announcement is the first line,  *)
(* unless a kill for an earlier process of that number has ended it.       *)
Announced ==
  /\ ssh # "open" => tail = 0 /\ lines = <<>>
  /\ tail # 0 => procs[tail] = "tail"
  /\ ssh = "open" /\ pid = 0 =>
       \/ lines = <<>> /\ tail = 0
       \/ lines # <<>> /\ Head(lines).kind = "PID" /\ Head(lines).pid \in {tail} \cup lost

(* The pid held is that of a tail which no kill is on its way for, or one  *)
(* whose tail has ended.                                                   *)
HeldTail == pid # 0 => pid \in lost \/ (procs[pid] = "tail" /\ pid \notin killers)

KillsInv == Announced /\ HeldTail /\ KillsOldTails

(* Which application speaks for number c: at 0 in what the parser holds,   *)
(* then line by line; None if none does.                                   *)
Word(c, i) ==
  IF i = 0 THEN apps[c].app
  ELSE IF lines[i].kind = "client" /\ lines[i].client = c THEN lines[i].app ELSE None.app
Leaves(c, i) == lines[i].kind = "detached" /\ lines[i].client = c

(* Between two words of different applications about a number stands the   *)
(* line of the one that left; the last word is of the application there.   *)
OneAppPerNumber ==
  \A c \in Clients : \A i \in 0..Len(lines) :
    Word(c, i) # None.app =>
      /\ \A j \in (i + 1)..Len(lines) :
           Word(c, j) \notin {None.app, Word(c, i)} => \E k \in (i + 1)..(j - 1) : Leaves(c, k)
      /\ tail # 0 /\ client[c].app # Word(c, i) => \E k \in (i + 1)..Len(lines) : Leaves(c, k)

RateInv ==
  /\ ssh \in {"none", "connecting"} => \A c \in Clients : apps[c] = None
  /\ ~renumbered => OneAppPerNumber
  /\ RateOfOneApp

(* What was said of an application `aged' ticks ago holds of it still,     *)
(* unless it called again or left.                                         *)
Lags(said, aged, now) ==
  /\ said.app > budget.apps
  /\ now.app = said.app =>
       /\ said.count <= now.count
       /\ said.count = now.count => now.idle > Stall \/ said.idle + aged <= now.idle

LagInv ==
  /\ \A c \in Clients : client[c] # None => client[c].app > budget.apps
  /\ \A c \in Clients : apps[c] # None => Lags(apps[c], apps[c].age, client[c])
  /\ \A i \in 1..Len(lines) :
       lines[i].kind = "client" => Lags(lines[i], 0, client[lines[i].client])
=============================================================================
