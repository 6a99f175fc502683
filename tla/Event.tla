------------------------------- MODULE Event -------------------------------
(***************************************************************************)
(* What an event promises: it is set or not; a wait ends when it finds the *)
(* event set, or for lack of time, and unless the event is a manual-reset  *)
(* one a wait that ends so clears it, in the same step.  Every call takes  *)
(* effect in one step between its beginning and its return.                *)
(***************************************************************************)
EXTENDS Naturals, FiniteSets

CONSTANTS Threads, InitialState, MaxWaiters

Kinds == {"set", "reset", "wait", "poll", "timedwait", "close"}

VARIABLES
  alive,    \* the event has not been closed
  manual,   \* bManualReset
  value,    \* it is set
  pending,  \* the call a thread is in, "returning" or "none"
  outcome   \* the result of its latest call that took effect

vars == <<alive, manual, value, pending, outcome>>

Init ==
  /\ alive = TRUE
  /\ manual \in BOOLEAN
  /\ value = InitialState
  /\ pending = [t \in Threads |-> "none"]
  /\ outcome = [t \in Threads |-> "ok"]

Call(t, kind) ==
  /\ pending[t] = "none"
  /\ pending' = [pending EXCEPT ![t] = kind]
  /\ UNCHANGED <<alive, manual, value, outcome>>

Effect(t, result) ==
  /\ alive
  /\ pending' = [pending EXCEPT ![t] = "returning"]
  /\ outcome' = [outcome EXCEPT ![t] = result]
  /\ UNCHANGED <<alive, manual>>

Assign(t) ==
  /\ pending[t] \in {"set", "reset"}
  /\ value' = (pending[t] = "set")
  /\ Effect(t, "ok")

\* At most one wait passes for each time an auto-reset event is set.
Pass(t) ==
  /\ pending[t] \in {"wait", "poll", "timedwait"}
  /\ value
  /\ value' = manual
  /\ Effect(t, "ok")

\* A poll fails only if the event is not set.
GiveUp(t) ==
  /\ pending[t] = "timedwait" \/ (pending[t] = "poll" /\ ~value)
  /\ UNCHANGED value
  /\ Effect(t, "timeout")

\* Only when as many as can wait do so already.
RefuseWait(t) ==
  /\ pending[t] \in {"wait", "poll", "timedwait"}
  /\ ~value
  /\ Cardinality({u \in Threads \ {t} : pending[u] \in {"wait", "timedwait"}}) >= MaxWaiters
  /\ UNCHANGED value
  /\ Effect(t, "overflow")

RefuseClose(t) ==
  /\ pending[t] = "close"
  /\ \E other \in Threads : pending[other] \in {"wait", "timedwait"}
  /\ UNCHANGED value
  /\ Effect(t, "busy")

Close(t) ==
  /\ pending[t] = "close"
  /\ \A other \in Threads \ {t} : pending[other] = "none"
  /\ alive
  /\ alive' = FALSE
  /\ pending' = [pending EXCEPT ![t] = "none"]
  /\ outcome' = [outcome EXCEPT ![t] = "ok"]
  /\ UNCHANGED <<manual, value>>

Return(t) ==
  /\ pending[t] = "returning"
  /\ pending' = [pending EXCEPT ![t] = "none"]
  /\ UNCHANGED <<alive, manual, value, outcome>>

Next ==
  \E t \in Threads :
    \/ \E kind \in Kinds : Call(t, kind)
    \/ Assign(t) \/ Pass(t) \/ GiveUp(t) \/ RefuseWait(t)
    \/ RefuseClose(t) \/ Close(t) \/ Return(t)

Spec == Init /\ [][Next]_vars
=============================================================================
