------------------------------ MODULE WriteQueue ------------------------------
(***************************************************************************)
(* What the Firestore client promises the app about updateData: the writes *)
(* of a user are answered one by one in the order they were made, each     *)
(* once; one answered without an error is on the server; none takes effect *)
(* before an earlier one of the same user has, nor after its answer; the   *)
(* completion of a write is called at most once, with that write's answer, *)
(* unless the process died in between.  WritePipeline implements it.       *)
(***************************************************************************)
EXTENDS Naturals, Sequences

CONSTANTS
    Users,     \* the accounts that use the app on this device
    MaxWrite   \* bound: number of updateData calls; calls are numbered

VARIABLES
    pending,    \* the unanswered writes of each user, in order
    log,        \* the writes the server applied, in order, replays included
    settled,    \* how each write was answered, "no" before that
    listening,  \* the writes whose completion can still be called
    told        \* what each completion was called with, "no" before that

Writes == 1 .. MaxWrite

Landed(w) == \E i \in DOMAIN log : log[i] = w

Init ==
    /\ pending = [u \in Users |-> <<>>]
    /\ log = <<>>
    /\ settled = [w \in Writes |-> "no"]
    /\ listening = {}
    /\ told = [w \in Writes |-> "no"]

(* A new call: it goes to the end of the queue of the user signed in. *)
Submit(u, w) ==
    /\ settled[w] = "no"
    /\ \A v \in Users : \A i \in DOMAIN pending[v] : pending[v][i] # w
    /\ pending' = [pending EXCEPT ![u] = Append(@, w)]
    /\ listening' = listening \cup {w}
    /\ UNCHANGED <<log, settled, told>>

(* The server applies a pending write; those before it have landed, and    *)
(* one that has landed may land again (a resend after a lost answer).      *)
Apply(u) ==
    /\ \E i \in DOMAIN pending[u] :
         /\ \A j \in 1 .. i - 1 : Landed(pending[u][j])
         /\ log' = Append(log, pending[u][i])
    /\ UNCHANGED <<pending, settled, listening, told>>

(* The oldest write of the user is answered, its completion is called if   *)
(* somebody still waits for it.                                            *)
Answer(u, outcome) ==
    /\ pending[u] # <<>>
    /\ LET w == Head(pending[u]) IN
       /\ settled[w] = "no"
       /\ outcome = "ok" => Landed(w)
       /\ settled' = [settled EXCEPT ![w] = outcome]
       /\ listening' = listening \ {w}
       /\ told' = IF w \in listening THEN [told EXCEPT ![w] = outcome] ELSE told
    /\ pending' = [pending EXCEPT ![u] = Tail(@)]
    /\ UNCHANGED log

(* The process dies: nobody waits any more.  It may die after the          *)
(* completion of the oldest write was called and before the answer is on   *)
(* disk, and the write will then be sent again.                            *)
Crash ==
    /\ listening' = {}
    /\ \/ told' = told
       \/ \E u \in Users :
            /\ pending[u] # <<>>
            /\ Head(pending[u]) \in listening /\ Landed(Head(pending[u]))
            /\ told' = [told EXCEPT ![Head(pending[u])] = "ok"]
    /\ UNCHANGED <<pending, log, settled>>

Next ==
    \/ \E u \in Users, w \in Writes : Submit(u, w)
    \/ \E u \in Users : Apply(u)
    \/ \E u \in Users, outcome \in {"ok", "error"} : Answer(u, outcome)
    \/ Crash

vars == <<pending, log, settled, listening, told>>

Spec == Init /\ [][Next]_vars
=============================================================================
