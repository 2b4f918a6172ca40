------------------------------- MODULE Permit -------------------------------
(***************************************************************************)
(* What the permit phase of the scheduling framework promises: a cycle     *)
(* whose permit plugins asked to wait goes on to binding only when all of  *)
(* them have allowed it, and what is decided first, allowed or rejected,   *)
(* is final.  The promise is made to cycles that are not raced by another  *)
(* cycle of their Subscription: the record a cycle waits on is kept under  *)
(* the UID of the Subscription, and two cycles share the place.            *)
(***************************************************************************)
CONSTANTS Cycle, Plugin, Undecided

VARIABLES
  phase,     \* of every cycle
  asked,     \* the plugins it waits for
  decision,  \* on its request to go on
  raced      \* the cycles to which nothing is promised

vars == <<phase, asked, decision, raced>>

Init ==
  /\ phase = [c \in Cycle |-> "scheduling"]
  /\ asked = [c \in Cycle |-> {}]
  /\ decision = [c \in Cycle |-> Undecided]
  /\ raced = {}

(* The plugins have been called, and some of them asked to wait.  Any of   *)
(* the cycles that wait then may meet another of its Subscription.         *)
Ask(c) ==
  /\ phase[c] = "scheduling"
  /\ phase' = [phase EXCEPT ![c] = "waiting"]
  /\ \E ps \in SUBSET Plugin : asked' = [asked EXCEPT ![c] = ps]
  /\ \E met \in SUBSET {d \in Cycle : phase'[d] = "waiting"} : raced' = raced \cup met
  /\ UNCHANGED decision

(* the last one to allow decides, unless a rejection came first *)
Allow(c, p) ==
  /\ p \in asked[c]
  /\ asked' = [asked EXCEPT ![c] = @ \ {p}]
  /\ decision' = [decision EXCEPT ![c] =
       IF @ = Undecided /\ asked[c] = {p} THEN "success" ELSE @]
  /\ UNCHANGED <<phase, raced>>

Reject(c) ==
  /\ decision[c] = Undecided /\ asked[c] # {}
  /\ decision' = [decision EXCEPT ![c] = "unschedulable"]
  /\ UNCHANGED <<phase, asked, raced>>

GoOn(c) ==
  /\ phase[c] = "waiting"
  /\ \/ asked[c] = {} /\ decision[c] = Undecided
     \/ decision[c] = "success"
     \/ c \in raced
  /\ phase' = [phase EXCEPT ![c] = "binding"]
  /\ UNCHANGED <<asked, decision, raced>>

GiveUp(c) ==
  /\ phase[c] = "waiting" => decision[c] = "unschedulable" \/ c \in raced
  /\ phase[c] \notin {"bound", "failed"}
  /\ phase' = [phase EXCEPT ![c] = "failed"]
  /\ UNCHANGED <<asked, decision, raced>>

Bind(c) ==
  /\ phase[c] = "binding"
  /\ phase' = [phase EXCEPT ![c] = "bound"]
  /\ UNCHANGED <<asked, decision, raced>>

Next ==
  \E c \in Cycle :
    \/ \E p \in Plugin : Allow(c, p)
    \/ Ask(c) \/ Reject(c) \/ GoOn(c) \/ GiveUp(c) \/ Bind(c)

Spec == Init /\ [][Next]_vars
=============================================================================
