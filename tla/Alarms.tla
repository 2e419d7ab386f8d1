-------------------------------- MODULE Alarms --------------------------------
(***************************************************************************)
(* What a protocol may expect of its timers: an alarm that is set goes off *)
(* once, not before its time, not after it was called off, and no alarm    *)
(* overtakes an earlier one; one rings at a time, and while it rings the   *)
(* clock stands still.  How the alarms are kept is left open.              *)
(***************************************************************************)
EXTENDS Integers

CONSTANT Alarm          \* the alarms there are

VARIABLES now,          \* the clock
          due,          \* the alarms that are set, with the time of each
          ringing       \* is an alarm that went off being attended to?

alarmVars == <<now, due, ringing>>

Init == now \in Nat /\ DOMAIN due = {} /\ ringing = FALSE

(* Time passes.                                                            *)
Pass == ~ringing /\ now' >= now /\ now' \in Nat /\ UNCHANGED <<due, ringing>>

(* An alarm is set, or set again.                                          *)
Set(a) ==
  /\ DOMAIN due' = DOMAIN due \cup {a}
  /\ due'[a] \in Nat /\ due'[a] >= now
  /\ \A b \in DOMAIN due \ {a} : due'[b] = due[b]
  /\ UNCHANGED <<now, ringing>>

Without(a) == [b \in DOMAIN due \ {a} |-> due[b]]

(* An alarm is called off before it went off.                              *)
Unset(a) == a \in DOMAIN due /\ due' = Without(a) /\ UNCHANGED <<now, ringing>>

(* The earliest alarm goes off, if its time has come.                      *)
GoOff(a) ==
  /\ ~ringing
  /\ a \in DOMAIN due
  /\ due[a] <= now
  /\ \A b \in DOMAIN due : due[a] <= due[b]
  /\ due' = Without(a)
  /\ ringing' = TRUE
  /\ UNCHANGED now

(* It has been attended to.                                                *)
Attended == ringing /\ ringing' = FALSE /\ UNCHANGED <<now, due>>

Next ==
  \/ Pass \/ Attended
  \/ \E a \in Alarm : Set(a) \/ Unset(a) \/ GoOff(a)

Spec == Init /\ [][Next]_alarmVars

=============================================================================
