---------------------------- MODULE EntryPromise ----------------------------
(***************************************************************************)
(* What the entry path promises of a session, without its daemon, its      *)
(* files and its crashes (config#2328): an entry is claimed before its     *)
(* order goes out, one order at a time works for it, it buys once, and the *)
(* claim is given back only when nothing was bought and nothing works.     *)
(***************************************************************************)
EXTENDS Integers

CONSTANTS
  Tickers,
  Lot        \* shares every entry asks for

VARIABLES
  claim,     \* what is on record of the entry of each ticker
  working,   \* whether an order for it works at the broker
  bought     \* the shares it bought

vars == <<claim, working, bought>>

Init ==
  /\ claim = [t \in Tickers |-> "free"]
  /\ working = [t \in Tickers |-> FALSE]
  /\ bought = [t \in Tickers |-> 0]

Untouched(t) == ~working[t] /\ bought[t] = 0

Claim(t) ==
  /\ claim[t] = "free" /\ Untouched(t)
  /\ claim' = [claim EXCEPT ![t] = "claimed"]
  /\ UNCHANGED <<working, bought>>

\* The entry can be tried again.
Release(t) ==
  /\ claim[t] = "claimed" /\ Untouched(t)
  /\ claim' = [claim EXCEPT ![t] = "free"]
  /\ UNCHANGED <<working, bought>>

\* The entry is done with, bought or given up.
Settle(t) ==
  /\ claim[t] = "claimed"
  /\ claim' = [claim EXCEPT ![t] = "done"]
  /\ UNCHANGED <<working, bought>>

Submit(t) ==
  /\ claim[t] = "claimed" /\ Untouched(t)
  /\ working' = [working EXCEPT ![t] = TRUE]
  /\ UNCHANGED <<claim, bought>>

Fill(t) ==
  /\ working[t]
  /\ \E n \in bought[t] + 1 .. Lot :
       /\ bought' = [bought EXCEPT ![t] = n]
       /\ working' = [working EXCEPT ![t] = n < Lot]
  /\ UNCHANGED claim

Reject(t) ==
  /\ working[t] /\ bought[t] = 0
  /\ working' = [working EXCEPT ![t] = FALSE]
  /\ UNCHANGED <<claim, bought>>

Next ==
  \E t \in Tickers :
    Claim(t) \/ Release(t) \/ Settle(t) \/ Submit(t) \/ Fill(t) \/ Reject(t)

Spec == Init /\ [][Next]_vars
=============================================================================
