----------------------------- MODULE CommandQueue -----------------------------
(***************************************************************************)
(* The reverse-agent command queue: the backend queues commands for a      *)
(* node, the poll loop of nexus-link-service (main.rs) fetches them        *)
(* (poller.rs, poll_and_execute), executes them one after the other and    *)
(* reports each result with a PATCH.  The loop polls when its interval is  *)
(* over or when the listener of PgListener wakes it.                       *)
(*                                                                         *)
(* The interval is not measured: while it is finite the timer may fire at  *)
(* any moment.  The commands are numbered in the order they are queued,    *)
(* which is the order the backend lists them in.                           *)
(***************************************************************************)
EXTENDS Naturals, FiniteSets

CONSTANTS MaxCommands,      \* bound: commands queued in a behaviour
          MaxFaults,        \* bound: requests, sessions and processes failing
          Default,          \* agent.poll_sec
          Hints,            \* the values X-Poll-Interval takes
          NoHint,           \* the header is absent or not a number
          Panics,           \* the commands on whose output truncate_output panics
          MAX_BACKOFF_SECS, Driven      \* see PgListener

ASSUME QueueOK == /\ MaxCommands \in Nat
                  /\ MaxFaults \in Nat
                  /\ Default \in Nat \ {0}
                  /\ Hints \subseteq Nat
                  /\ NoHint \notin Nat
                  /\ MAX_BACKOFF_SECS \in Nat \ {0}
                  /\ Driven \in BOOLEAN
                  /\ Panics \subseteq 1 .. MaxCommands

Commands == 1 .. MaxCommands

VARIABLES session, backoff, sent, permit,       \* the listener
          redelivers,   \* does the backend list a command again until its
                        \* result is reported (external, of either kind)
          issued,       \* the commands queued so far are 1 .. issued
          handed,       \* those the backend has put in a response
          reported,     \* those whose result the backend has
          pc,           \* where the poll loop is
          interval,     \* current_interval, in seconds
          batch,        \* the commands of the response not yet dealt with
          hint,         \* its X-Poll-Interval
          executed,     \* executed[c]: how often c was executed (history)
          lost,         \* lost[c]: executions whose result was lost (history)
          owed,         \* a NOTIFY has arrived and no poll since has asked
                        \* for commands (history)
          faults        \* faults so far, for the bound

L == INSTANCE PgListener

listenerVars == <<session, backoff, sent, permit>>
backendVars  == <<redelivers, issued, handed, reported>>
pollVars     == <<pc, interval, batch, hint>>
historyVars  == <<executed, lost, owed>>
vars == <<listenerVars, backendVars, pollVars, historyVars, faults>>

Init == /\ L!ListenerInit
        /\ redelivers \in BOOLEAN
        /\ issued = 0 /\ handed = {} /\ reported = {}
        /\ pc = "wait" /\ interval = Default
        /\ batch = {} /\ hint = NoHint
        /\ executed = [c \in Commands |-> 0]
        /\ lost = [c \in Commands |-> 0]
        /\ owed = FALSE
        /\ faults = 0

Fault == faults < MaxFaults /\ faults' = faults + 1

(* GET .../pending: the commands without a result. *)
Pending == {c \in 1 .. issued : c \notin reported}
Listed  == IF redelivers THEN Pending ELSE Pending \ handed

(* Mutant of Oldest: the list is dealt with from its end. *)
Newest(S) == CHOOSE c \in S : \A d \in S : c >= d

Oldest(S) == CHOOSE c \in S : \A d \in S : c <= d

-------------------------------------------------------------------------------
(* The backend (external): a command is queued and NOTIFY is sent, which only
   a subscribed session receives. *)
Issue == /\ issued < MaxCommands
         /\ issued' = issued + 1
         /\ sent' = (sent \/ session = "stream")
         /\ UNCHANGED <<session, backoff, permit, redelivers, handed, reported,
                        pollVars, historyVars, faults>>

(* The listener's steps, which do not touch the poll loop. *)
NotifyWakes == /\ L!Notified
               /\ owed' = TRUE
               /\ UNCHANGED <<backendVars, pollVars, executed, lost, faults>>

ListenerStep == /\ L!Connect \/ L!Listen \/ L!Reconnect
                /\ UNCHANGED <<backendVars, pollVars, historyVars, faults>>

ListenerFault == /\ L!SessionFails \/ L!SessionEnds
                 /\ Fault
                 /\ UNCHANGED <<backendVars, pollVars, historyVars>>

-------------------------------------------------------------------------------
(* select!: the interval is over ... *)
Timer == /\ pc = "wait"
         /\ pc' = "fetch"
         /\ UNCHANGED <<listenerVars, backendVars, interval, batch, hint,
                        historyVars, faults>>

(* Mutant of WakeUp: the permit is taken and the wait goes on. *)
WakeUpIgnored == /\ pc = "wait"
                 /\ permit
                 /\ permit' = FALSE
                 /\ UNCHANGED <<session, backoff, sent, backendVars, pollVars,
                                historyVars, faults>>

(* ... or the Notify holds a permit, which notified() takes. *)
WakeUp == /\ pc = "wait"
          /\ permit
          /\ permit' = FALSE
          /\ pc' = "fetch"
          /\ UNCHANGED <<session, backoff, sent, backendVars, interval, batch,
                         hint, historyVars, faults>>

(* The backend answers the GET with what it lists at that moment. *)
Serve == /\ pc = "fetch"
         /\ pc' = "response"
         /\ batch' = Listed
         /\ handed' = handed \union Listed
         /\ owed' = FALSE
         /\ hint' \in Hints \union {NoHint}
         /\ UNCHANGED <<listenerVars, redelivers, issued, reported, interval,
                        executed, lost, faults>>

(* Mutant of PollReturns: a hint of zero is taken for an interval. *)
PollReturnsZero(h) ==
    /\ pc' = "wait"
    /\ interval' = IF h # NoHint THEN h ELSE interval
    /\ batch' = {}
    /\ hint' = NoHint

(* poll_and_execute returns Ok(h): a positive hint is the next interval. *)
PollReturns(h) ==
    /\ pc' = "wait"
    /\ interval' = IF h # NoHint /\ h > 0 THEN h ELSE interval
    /\ batch' = {}
    /\ hint' = NoHint

(* The response is 204, or lists nothing. *)
NothingPending == /\ pc = "response"
                  /\ batch = {}
                  /\ PollReturns(hint)
                  /\ UNCHANGED <<listenerVars, backendVars, historyVars, faults>>

Received == /\ pc = "response"
            /\ batch # {}
            /\ pc' = "execute"
            /\ UNCHANGED <<listenerVars, backendVars, interval, batch, hint,
                           historyVars, faults>>

(* A status that is no success is logged; its hint counts all the same. *)
Refused == /\ pc = "fetch"
           /\ Fault
           /\ owed' = FALSE
           /\ \E h \in Hints \union {NoHint} : PollReturns(h)
           /\ UNCHANGED <<listenerVars, backendVars, executed, lost>>

(* The request or its answer is lost, times out, or does not parse: poll_and_
   execute returns Err and the loop goes back to its configured interval. *)
FetchFails == /\ pc \in {"fetch", "response"}
              /\ Fault
              /\ pc' = "wait"
              /\ interval' = Default
              /\ batch' = {} /\ hint' = NoHint
              /\ owed' = (owed /\ pc # "fetch")
              /\ UNCHANGED <<listenerVars, backendVars, executed, lost>>

(* Mutant of Execute: a command executed before is skipped, with the rest. *)
ExecuteOnce ==
    /\ pc = "execute"
    /\ \/ /\ executed[Oldest(batch)] = 0
          /\ pc' = "patch"
          /\ executed' = [executed EXCEPT ![Oldest(batch)] = @ + 1]
          /\ UNCHANGED <<interval, batch, hint>>
       \/ /\ executed[Oldest(batch)] > 0
          /\ PollReturns(hint)
          /\ UNCHANGED executed
    /\ UNCHANGED <<listenerVars, backendVars, lost, owed, faults>>

(* execute_command on the next command of the list.  Each command has a
   timeout or does not wait, so it returns ... *)
Execute == /\ pc = "execute"
           /\ pc' = "patch"
           /\ executed' = [executed EXCEPT ![Oldest(batch)] = @ + 1]
           /\ UNCHANGED <<listenerVars, backendVars, interval, batch, hint,
                          lost, owed, faults>>

(* ... unless its output is longer than MAX_OUTPUT_LEN and a character lies
   across that byte: the slice of truncate_output panics, and the task of the
   poll loop ends.  main does not look at its handle; the service goes on. *)
ExecutePanics ==
    /\ pc = "execute"
    /\ Oldest(batch) \in Panics
    /\ pc' = "ended"
    /\ executed' = [executed EXCEPT ![Oldest(batch)] = @ + 1]
    /\ lost' = [lost EXCEPT ![Oldest(batch)] = @ + 1]
    /\ batch' = {} /\ hint' = NoHint /\ interval' = Default
    /\ UNCHANGED <<listenerVars, backendVars, owed, faults>>

(* Mutant of NextCommand: the loop goes on without leaving the command behind. *)
SameCommand ==
    \/ /\ batch \ {Oldest(batch)} # {}
       /\ pc' = "execute"
       /\ UNCHANGED <<batch, interval, hint>>
    \/ /\ batch = {Oldest(batch)}
       /\ PollReturns(hint)

(* However its PATCH ends, the loop goes on with the next command. *)
NextCommand ==
    LET rest == batch \ {Oldest(batch)} IN
    \/ /\ rest # {}
       /\ pc' = "execute"
       /\ batch' = rest
       /\ UNCHANGED <<interval, hint>>
    \/ /\ rest = {}
       /\ PollReturns(hint)

(* The backend has the result, whether or not the node sees its answer. *)
PatchApplied == /\ pc = "patch"
                /\ reported' = reported \union {Oldest(batch)}
                /\ NextCommand
                /\ UNCHANGED <<listenerVars, redelivers, issued, handed,
                               historyVars, faults>>

(* Mutant of PatchLost: the command is executed again at once. *)
PatchRetried == /\ pc = "patch"
                /\ Fault
                /\ lost' = [lost EXCEPT ![Oldest(batch)] = @ + 1]
                /\ pc' = "execute"
                /\ UNCHANGED <<interval, batch, hint>>
                /\ UNCHANGED <<listenerVars, backendVars, executed, owed>>

(* The PATCH is lost or refused: the result is logged and forgotten. *)
PatchLost == /\ pc = "patch"
             /\ Fault
             /\ lost' = [lost EXCEPT ![Oldest(batch)] = @ + 1]
             /\ NextCommand
             /\ UNCHANGED <<listenerVars, backendVars, executed, owed>>

-------------------------------------------------------------------------------
(* The service stops at any point, by a signal or a crash, and systemd or the
   operator starts it again: nothing of the loop, the listener or the Notify
   survives. *)
Stop == /\ pc # "down"
        /\ Fault
        /\ pc' = "down"
        /\ batch' = {} /\ hint' = NoHint /\ interval' = Default
        /\ lost' = IF pc = "patch"
                   THEN [lost EXCEPT ![Oldest(batch)] = @ + 1] ELSE lost
        /\ owed' = FALSE
        /\ session' = "down" /\ backoff' = 1 /\ sent' = FALSE /\ permit' = FALSE
        /\ UNCHANGED <<backendVars, executed>>

Start == /\ pc = "down"
         /\ pc' = "wait"
         /\ session' = "connect"
         /\ UNCHANGED <<backoff, sent, permit, backendVars, interval, batch,
                        hint, historyVars, faults>>

-------------------------------------------------------------------------------
Select   == Timer \/ WakeUp
Poll     == \/ Serve \/ NothingPending \/ Received \/ Refused \/ FetchFails
            \/ Execute \/ ExecutePanics \/ PatchApplied \/ PatchLost
Listener == NotifyWakes \/ ListenerStep \/ ListenerFault

Next == Issue \/ Select \/ Poll \/ Listener \/ Stop \/ Start

(* Every await of a poll has a timeout, so it goes on, and a service that
   stopped is started again.  The wake-up completes the wait when there is a
   permit; of the timer nothing is assumed here. *)
PollFairness     == WF_vars(Poll) /\ WF_vars(Start) /\ WF_vars(WakeUp)
ListenerFairness == WF_vars(ListenerStep) /\ WF_vars(NotifyWakes)

(* A wait ends, at the latest with the timer. *)
TimerFairness    == WF_vars(Select)

Spec     == Init /\ [][Next]_vars
FairSpec == Spec /\ PollFairness /\ ListenerFairness

-------------------------------------------------------------------------------
(* interval is never zero, so the loop never spins: a hint of 0 is ignored. *)
PollTypeOK == /\ issued \in 0 .. MaxCommands
              /\ handed \in SUBSET Commands
              /\ reported \in SUBSET Commands
              /\ pc \in {"wait", "fetch", "response", "execute", "patch", "ended",
                     "down"}
              /\ interval \in {Default} \union (Hints \ {0})
              /\ batch \in SUBSET Commands
              /\ pc \in {"execute", "patch"} => batch # {}
              /\ hint \in Hints \union {NoHint}
              /\ executed \in [Commands -> Nat]
              /\ lost \in [Commands -> Nat]
              /\ faults \in 0 .. MaxFaults

TypeOK == /\ PollTypeOK /\ L!ListenerTypeOK
          /\ owed \in BOOLEAN /\ redelivers \in BOOLEAN

(* No execution is forgotten and none is repeated for nothing: a command was
   executed once for the result the backend has, once for each result that a
   failed PATCH or a stop of the service lost, and once more if its PATCH is
   under way.  So it runs at most once when no result is lost, and no result
   is reported of a command that was not run. *)
InPatch(c) == pc = "patch" /\ c = Oldest(batch)
One(b) == IF b THEN 1 ELSE 0
ExecutionsAccounted ==
    \A c \in Commands :
        executed[c] = lost[c] + One(c \in reported) + One(InPatch(c))

(* A command is not executed before those queued ahead of it, whatever polls
   failed, results were lost or restarts intervened.  It takes a backend that
   lists unreported commands again; otherwise a lost response loses them. *)
InOrder == redelivers =>
    \A c, d \in Commands : c < d /\ executed[d] > 0 => executed[c] > 0

(* A backend that lists a command once has it executed at most once. *)
ListedOnce == ~redelivers => \A c \in Commands : executed[c] <= 1

(* What all of this amounts to for the backend: one command at a time, in order
   or once each, and none again whose result it has (CommandLog).  A result is
   under way while its PATCH is. *)
UnderWay == IF pc = "patch" THEN Oldest(batch) ELSE 0

Log == INSTANCE CommandLog WITH again <- redelivers, current <- UnderWay

Promise == Log!Spec

(* A NOTIFY that arrives while the loop is polling is not lost: a permit is
   kept for it, or the GET that covers it is not answered yet.  (A GET that
   fails uses the permit up; what it was for waits for the timer.) *)
NoLostWakeUp == owed => permit \/ pc = "fetch"

(* With a backend that lists again, finitely many faults, and a timer that
   ends each wait, each command is executed and its result reported
   (README.md:313-319), unless the output of a command makes the loop panic. *)
ReportedUnlessEnded ==
    redelivers /\ TimerFairness =>
        \A c \in Commands : (c <= issued) ~> (c \in reported \/ pc = "ended")

(* Without waiting for the timer, a NOTIFY leads to a poll, if the loop has not
   ended. *)
WokenIsFetched == owed ~> (~owed \/ pc = "ended")

(* CHANGELOG.md:150-154: the listener maintains a subscribed connection and
   reconnects by itself. *)
ListenerSubscribes == <>[](session = "stream")
===============================================================================
