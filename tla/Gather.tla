------------------------------- MODULE Gather -------------------------------
(***************************************************************************)
(* What the host all-gather promises its callers, whatever slots, words    *)
(* and clocks carry it: a rank's call joins its payload to the calls of    *)
(* the same number, and in one step it either holds every rank's payload   *)
(* of that number or fails and says why.  A failure that starts at a rank  *)
(* ends the group's calls until Reset(), except the gathers already whole. *)
(***************************************************************************)
EXTENDS Naturals, Sequences

CONSTANTS Rank, Payloads

VARIABLES
  given,     \* per rank, the payloads of its calls since Reset()
  inside,    \* the ranks inside a call
  aborted,   \* the group is aborted
  outcome,   \* per rank, how its latest call ended
  got        \* per rank, what its latest call gathered, blank if it did not

vars == <<given, inside, aborted, outcome, got>>

Blank == [q \in Rank |-> <<>>]
Number(r) == Len(given[r])       \* of the call r is in
Joined(r, q) == Number(q) >= Number(r)
Given(r, q) == given[q][Number(r)]

Init ==
  /\ given = [r \in Rank |-> <<>>] /\ inside = {} /\ aborted = FALSE
  /\ outcome = [r \in Rank |-> "none"] /\ got = [r \in Rank |-> Blank]

(* A call on an aborted group does not begin.                              *)
Refuse(r) ==
  /\ r \notin inside /\ aborted
  /\ outcome' = [outcome EXCEPT ![r] = "aborted"]
  /\ got' = [got EXCEPT ![r] = Blank]
  /\ UNCHANGED <<given, inside, aborted>>

Call(r, p) ==
  /\ r \notin inside /\ ~aborted
  /\ given' = [given EXCEPT ![r] = Append(@, p)]
  /\ inside' = inside \cup {r}
  /\ outcome' = [outcome EXCEPT ![r] = "none"]
  /\ got' = [got EXCEPT ![r] = Blank]
  /\ UNCHANGED aborted

Leave(r, how) ==
  /\ inside' = inside \ {r}
  /\ outcome' = [outcome EXCEPT ![r] = how]
  /\ UNCHANGED given

(* Everybody joined the call with a payload of one size.                   *)
Gathered(r) ==
  /\ r \in inside
  /\ \A q \in Rank : Joined(r, q) /\ Len(Given(r, q)) = Len(Given(r, r))
  /\ Leave(r, "ok")
  /\ got' = [got EXCEPT ![r] = [q \in Rank |-> Given(r, q)]]
  /\ UNCHANGED aborted

Aborted(r) == r \in inside /\ aborted /\ Leave(r, "aborted") /\ UNCHANGED <<aborted, got>>
TimedOut(r) == r \in inside /\ Leave(r, "timeout") /\ aborted' = TRUE /\ UNCHANGED got

(* Everybody joined, and some rank's payload has another size.             *)
Diverged(r) ==
  /\ r \in inside
  /\ \A q \in Rank : Joined(r, q)
  /\ \E q \in Rank : Len(Given(r, q)) # Len(Given(r, r))
  /\ Leave(r, "divergence")
  /\ aborted' = TRUE
  /\ UNCHANGED got

Abort == aborted' = TRUE /\ UNCHANGED <<given, inside, outcome, got>>

Reset ==
  /\ inside = {}
  /\ given' = [r \in Rank |-> <<>>] /\ aborted' = FALSE
  /\ outcome' = [r \in Rank |-> "none"] /\ got' = [r \in Rank |-> Blank]
  /\ UNCHANGED inside

Next ==
  \/ \E r \in Rank : Refuse(r) \/ Gathered(r) \/ Aborted(r) \/ TimedOut(r) \/ Diverged(r)
  \/ \E r \in Rank, p \in Payloads : Call(r, p)
  \/ Abort
  \/ Reset

Spec == Init /\ [][Next]_vars
=============================================================================
