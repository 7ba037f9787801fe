----------------------------- MODULE SaveDelivery -----------------------------
(***************************************************************************)
(* What the write path promises for the saves of one file, whatever the    *)
(* network, the process and other people do.  Bytes reach the cloud in the *)
(* order of the saves, each save replaces exactly the content it was made  *)
(* from, and a save is confirmed only when its bytes were delivered.  A    *)
(* save may be refused at any time, and one that was refused may turn out  *)
(* to have been delivered.                                                 *)
(***************************************************************************)
EXTENDS Integers

CONSTANTS MaxSaves, First

VARIABLES text,        \* whose content the cloud holds under the name
          outcome,     \* what the user was told about each save
          delivered    \* saves whose bytes were, at some time, the content

vars == <<text, outcome, delivered>>

Saves == 1..MaxSaves
Nothing == -2
Somebody == -1
Original == 0
Creates(o) == o = 1 /\ First = "create"

Init ==
    /\ text = IF First = "create" THEN Nothing ELSE Original
    /\ outcome = [o \in Saves |-> "none"]
    /\ delivered = {}

Save(o) ==
    /\ outcome[o] = "none" /\ (o > 1 => outcome[o - 1] # "none")
    /\ outcome' = [outcome EXCEPT ![o] = "waiting"]
    /\ UNCHANGED <<text, delivered>>

(* A creation fills an empty name; any other save follows the confirmed      *)
(* previous one and is delivered once.                                       *)
Deliver(o) ==
    /\ outcome[o] # "none" /\ (o > 1 => outcome[o - 1] = "confirmed")
    /\ IF Creates(o) THEN text = Nothing ELSE text = o - 1 /\ o \notin delivered
    /\ text' = o
    /\ delivered' = delivered \cup {o}
    /\ UNCHANGED outcome

Confirm(o) ==
    /\ outcome[o] = "waiting" /\ o \in delivered
    /\ outcome' = [outcome EXCEPT ![o] = "confirmed"]
    /\ UNCHANGED <<text, delivered>>
Refuse(o) ==
    /\ outcome[o] = "waiting"
    /\ outcome' = [outcome EXCEPT ![o] = "refused"]
    /\ UNCHANGED <<text, delivered>>
Retry(o) ==
    /\ outcome[o] = "refused"
    /\ outcome' = [outcome EXCEPT ![o] = "waiting"]
    /\ UNCHANGED <<text, delivered>>

(* Somebody else writes or removes the file. *)
Interfere ==
    /\ text' \in {Somebody, Nothing}
    /\ UNCHANGED <<outcome, delivered>>

Next == Interfere \/ \E o \in Saves : Save(o) \/ Deliver(o) \/ Confirm(o) \/ Refuse(o) \/ Retry(o)
Spec == Init /\ [][Next]_vars
================================================================================
