---------------------------- MODULE TimerSchedule ----------------------------
(***************************************************************************)
(* The timer backend for simulations and polling main loops,               *)
(* src/timer_schedule.c, reached through src/timer_base.c: entries in a    *)
(* list ordered by start time, a clock that the user sets, and             *)
(* nck_schedule_run, which calls back every entry whose time has come.     *)
(*                                                                         *)
(* A callback may itself add, re-arm, cancel and free entries, its own     *)
(* too, so the loop of nck_schedule_run is taken apart: it takes the first *)
(* entry off the list, the callback makes its calls one by one, and the    *)
(* loop looks at the list again.  A cancelled entry is called back with    *)
(* success = 0, on which every callback of the library returns at once.    *)
(***************************************************************************)
EXTENDS Integers, SequencesExt, FiniteSetsExt

CONSTANTS Entries,      \* timer entries there may be
          Delays,       \* delays an entry may be armed with
          MaxTime       \* bound on the clock

ASSUME DelaysAssumption == Delays \subseteq Nat
ASSUME MaxTimeAssumption == MaxTime \in Nat

VARIABLES time,         \* schedule->time
          list,         \* schedule->list: the pending entries
          start,        \* entry->start
          live,         \* the entries that are allocated
          phase,        \* where nck_schedule_run is
          next          \* *next of the latest run

schedVars == <<time, list, start, live, phase, next>>

SchedTypeOK ==
  /\ time \in 0 .. MaxTime
  /\ list \in Seq(Entries)
  /\ start \in [Entries -> Nat]
  /\ live \subseteq Entries
  /\ phase \in {"returned", "loop", "callback"}
  /\ next \in Nat

SchedInit ==
  /\ time = 0
  /\ list = <<>>
  /\ start = [e \in Entries |-> 0]
  /\ live = {}
  /\ phase = "returned"
  /\ next = 0

-----------------------------------------------------------------------------
Pending(e) == \E i \in DOMAIN list : list[i] = e

(* Mutant: the comparison is the wrong way round.                          *)
InsertBeforeEarlier(l, s) ==
  LET places == {i \in DOMAIN l : start[l[i]] <= s}
  IN  IF places = {} THEN Len(l) + 1 ELSE Min(places)

(* The place of an entry that starts at s: before the first one that does  *)
(* not start earlier.                                                      *)
InsertPlace(l, s) ==
  LET places == {i \in DOMAIN l : s <= start[l[i]]}
  IN  IF places = {} THEN Len(l) + 1 ELSE Min(places)

(* Mutant: an entry that is pending stays where it is as well.             *)
ArmTwice(e, delay) ==
  /\ start' = [start EXCEPT ![e] = time + delay]
  /\ list' = InsertAt(list, InsertPlace(list, time + delay), e)

(* Mutant: the delay is lost.                                              *)
ArmAtOnce(e, delay) ==
  LET rest == RemoveFirst(list, e)
  IN  /\ start' = [start EXCEPT ![e] = time]
      /\ list' = InsertAt(rest, InsertPlace(rest, time), e)

(* schedule_rearm: a pending entry is moved.                               *)
Arm(e, delay) ==
  LET rest == RemoveFirst(list, e)
  IN  /\ start' = [start EXCEPT ![e] = time + delay]
      /\ list' = InsertAt(rest, InsertPlace(rest, time + delay), e)

(* The protocols call while the schedule does not run, or from a callback. *)
UserTurn == phase \in {"returned", "callback"}

(* nck_timer_add without a delay, and with one.                            *)
Add(e) ==
  /\ UserTurn
  /\ e \notin live
  /\ live' = live \cup {e}
  /\ \/ start' = [start EXCEPT ![e] = 0] /\ UNCHANGED list
     \/ \E delay \in Delays : Arm(e, delay)
  /\ UNCHANGED <<time, phase, next>>

Rearm(e) ==
  /\ UserTurn
  /\ e \in live
  /\ \E delay \in Delays : Arm(e, delay)
  /\ UNCHANGED <<time, live, phase, next>>

Cancel(e) ==
  /\ UserTurn
  /\ e \in live /\ Pending(e)
  /\ list' = RemoveFirst(list, e)
  /\ UNCHANGED <<time, start, live, phase, next>>

(* nck_timer_free, which does not look at the list: the protocols cancel   *)
(* an entry before they free it.                                           *)
Free(e) ==
  /\ UserTurn
  /\ e \in live /\ ~Pending(e)
  /\ live' = live \ {e}
  /\ UNCHANGED <<time, list, start, phase, next>>

-----------------------------------------------------------------------------
(* The main loop sets the clock between two runs.                          *)
SetTime ==
  /\ phase = "returned"
  /\ \E t \in (time + 1) .. MaxTime : time' = t
  /\ UNCHANGED <<list, start, live, phase, next>>

(* nck_schedule_run on a list that is not empty.  An empty one returns 1   *)
(* and changes nothing.                                                    *)
Run ==
  /\ phase = "returned"
  /\ list # <<>>
  /\ phase' = "loop"
  /\ UNCHANGED <<time, list, start, live, next>>

FirstDue == list # <<>> /\ time >= start[Head(list)]

(* Mutant: the entry stays in the list.                                    *)
CallBackLinked ==
  /\ phase = "loop"
  /\ FirstDue
  /\ phase' = "callback"
  /\ UNCHANGED <<time, list, start, live, next>>

CallBack ==
  /\ phase = "loop"
  /\ FirstDue
  /\ list' = Tail(list)
  /\ phase' = "callback"
  /\ UNCHANGED <<time, start, live, next>>

CallbackReturns ==
  /\ phase = "callback"
  /\ phase' = "loop"
  /\ UNCHANGED <<time, list, start, live, next>>

(* Mutant: the times are subtracted the wrong way round.                   *)
RunReturnsSwapped ==
  /\ phase = "loop"
  /\ ~FirstDue
  /\ next' = IF list = <<>> THEN 0 ELSE time - start[Head(list)]
  /\ phase' = "returned"
  /\ UNCHANGED <<time, list, start, live>>

(* Mutant: the main loop is told to come back after the shortest time.     *)
RunReturnsSoon ==
  /\ phase = "loop"
  /\ ~FirstDue
  /\ next' = IF list = <<>> THEN 0 ELSE 1
  /\ phase' = "returned"
  /\ UNCHANGED <<time, list, start, live>>

RunReturns ==
  /\ phase = "loop"
  /\ ~FirstDue
  /\ next' = IF list = <<>> THEN 0 ELSE start[Head(list)] - time
  /\ phase' = "returned"
  /\ UNCHANGED <<time, list, start, live>>

SchedNext ==
  \/ \E e \in Entries : Add(e) \/ Rearm(e) \/ Cancel(e) \/ Free(e)
  \/ SetTime
  \/ Run \/ CallBack \/ CallbackReturns \/ RunReturns

SchedSpec == SchedInit /\ [][SchedNext]_schedVars

(* The main loop runs the schedule again and again, and a callback makes   *)
(* finitely many calls before it returns.                                  *)
SchedFairness ==
  /\ WF_schedVars(Run) /\ WF_schedVars(CallBack)
  /\ WF_schedVars(CallbackReturns) /\ WF_schedVars(RunReturns)

SchedFairSpec == SchedSpec /\ SchedFairness

-----------------------------------------------------------------------------
(* The list is in the order of the start times and holds an entry once,    *)
(* and only entries that are allocated: run never follows a pointer to a   *)
(* freed entry, whatever the callbacks free while it runs.                 *)
ListInOrder ==
  /\ \A i, j \in DOMAIN list : i < j => start[list[i]] <= start[list[j]]
  /\ \A i, j \in DOMAIN list : list[i] = list[j] => i = j
  /\ \A i \in DOMAIN list : list[i] \in live

(* When run returns, everything that was due has been called back, and a   *)
(* main loop that advances the clock by `next' (docs/timers.rst) gets to   *)
(* the start of a pending entry and past none: it never oversleeps, and    *)
(* never wakes up before there is something to do.                         *)
NextIsExact ==
  [][RunReturns =>
       /\ \A e \in Entries : Pending(e) => time < start[e] /\ next' <= start[e] - time
       /\ list # <<>> => \E e \in Entries : Pending(e) /\ next' = start[e] - time]_schedVars

(* The schedule implements the alarms the protocols rely on.               *)
AlarmsDue == [e \in {list[i] : i \in DOMAIN list} |-> start[e]]

Ringing == phase = "callback"

Alarm == INSTANCE Alarms WITH
  Alarm <- Entries, now <- time, due <- AlarmsDue, ringing <- Ringing

GoesOffInOrder == Alarm!Spec

(* An entry whose time has come is called back, unless it is cancelled or  *)
(* moved before: no entry starves behind others that are armed again and   *)
(* again.                                                                  *)
NoneStarves ==
  \A e \in Entries :
    (Pending(e) /\ start[e] <= time) ~> ~(Pending(e) /\ start[e] <= time)

(* nck_schedule_run comes back to the main loop, although the callbacks    *)
(* arm entries again, as long as none asks for a delay of zero: such an    *)
(* entry is due at once, and the run that called it back never ends.       *)
RunEnds == phase # "returned" ~> phase = "returned"

=============================================================================
