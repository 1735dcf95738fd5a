---------------------------- MODULE OrderedChannel ----------------------------
(***************************************************************************)
(* What a secure channel promises the caller of CardManager::transmit,     *)
(* with no word about handles, chains, MACs or the link.                   *)
(*                                                                         *)
(* Under each set of session keys the host issues commands one after       *)
(* another.  The card executes them in that order, each at most once, none *)
(* skipped: it may stop for good, it never resumes after a gap.  A success *)
(* returned for a command means that this command was executed.            *)
(***************************************************************************)
EXTENDS Naturals, Sequences

CONSTANTS
  Keys,        \* sets of session keys
  Commands,    \* what can be issued
  NoAnswer     \* the caller has no answer in hand

VARIABLES
  issued,      \* per key set, the commands issued so far
  executed,    \* per key set, the commands executed so far
  answer       \* the answer last returned: for which command, with what status

vars == <<issued, executed, answer>>

Init ==
  /\ issued = [k \in Keys |-> <<>>]
  /\ executed = [k \in Keys |-> <<>>]
  /\ answer = NoAnswer

Issue(k, c) ==
  /\ issued' = [issued EXCEPT ![k] = Append(@, c)]
  /\ answer' = NoAnswer
  /\ UNCHANGED executed

Execute(k) ==
  /\ Len(executed[k]) < Len(issued[k])
  /\ executed' = [executed EXCEPT ![k] = Append(@, issued[k][Len(@) + 1])]
  /\ UNCHANGED <<issued, answer>>

\* Success needs the command executed; an error may come from anywhere.
Deliver(k, sw) ==
  /\ issued[k] # <<>>
  /\ sw = "ok" => Len(executed[k]) = Len(issued[k])
  /\ answer' = [key |-> k, n |-> Len(issued[k]), sw |-> sw]
  /\ UNCHANGED <<issued, executed>>

Forget == answer' = NoAnswer /\ UNCHANGED <<issued, executed>>

Next ==
  \/ \E k \in Keys, c \in Commands : Issue(k, c)
  \/ \E k \in Keys : Execute(k)
  \/ \E k \in Keys, sw \in {"ok", "error"} : Deliver(k, sw)
  \/ Forget

Spec == Init /\ [][Next]_vars
=============================================================================
