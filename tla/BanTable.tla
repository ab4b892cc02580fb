------------------------------ MODULE BanTable ------------------------------
(***************************************************************************)
(* What the block list promises, with no map, no lock and no clean-up: for *)
(* every address the instant its ban ends, if it is banned now.  A ban     *)
(* starts when an operator's request for it is served, ends when its time  *)
(* is over, and ends early only when an operator's request to lift it, or  *)
(* to ban the address anew, is served.  Nothing else touches a ban.        *)
(***************************************************************************)
EXTENDS Naturals

CONSTANTS
    Operators, \* whoever bans and lifts
    Ips,       \* canonical addresses
    NoIp,      \* no request
    MaxBlock   \* longest ban an operator may ask for

VARIABLES
    clock,    \* the current instant
    until,    \* until[ip]: end of the ban on ip; 0 when ip is not banned
    request   \* request[o]: what operator o asked for and is not served yet

vars == <<clock, until, request>>

-----------------------------------------------------------------------------
Remaining(end, at) == IF end > at THEN end ELSE 0

NoRequest == [op |-> "none", ip |-> NoIp, end |-> 0]

(* A ban of length d is counted from the instant it is asked for. *)
Requests ==
    [op : {"ban"}, ip : Ips, end : clock + 1..clock + MaxBlock]
        \cup [op : {"lift"}, ip : Ips, end : {0}]

Init ==
    /\ clock = 0
    /\ until = [ip \in Ips |-> 0]
    /\ request = [o \in Operators |-> NoRequest]

Ask(o) ==
    /\ request[o] = NoRequest
    /\ request'[o] \in Requests
    /\ request' = [request EXCEPT ![o] = request'[o]]
    /\ UNCHANGED <<clock, until>>

(* It replaces the ban the address had, though that may end later. *)
Ban(o) ==
    /\ request[o].op = "ban"
    /\ until' = [until EXCEPT ![request[o].ip] = Remaining(request[o].end, clock)]
    /\ request' = [request EXCEPT ![o] = NoRequest]
    /\ UNCHANGED clock

Lift(o) ==
    /\ request[o].op = "lift"
    /\ until' = [until EXCEPT ![request[o].ip] = 0]
    /\ request' = [request EXCEPT ![o] = NoRequest]
    /\ UNCHANGED clock

Tick ==
    /\ clock' = clock + 1
    /\ until' = [ip \in Ips |-> Remaining(until[ip], clock + 1)]
    /\ UNCHANGED request

Next ==
    \/ Tick
    \/ \E o \in Operators : Ask(o) \/ Ban(o) \/ Lift(o)

Spec == Init /\ [][Next]_vars
=============================================================================
