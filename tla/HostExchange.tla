---------------------------- MODULE HostExchange ----------------------------
(***************************************************************************)
(* The host-side all-gather of the tensor-parallel group:                  *)
(* src/src/core/include/r4dx/core/tp_host_exchange.hpp.                    *)
(*                                                                         *)
(* Every rank owns an arrive word, a call counter and two payload slots;   *)
(* call g of a rank writes slot[g & 1], publishes arrive = g and waits for *)
(* every peer's arrive word before it copies the peers' slots out.  No     *)
(* lock protects a slot: the parity of g and the abort flag do.            *)
(*                                                                         *)
(* A rank's call is split at every shared access, so a peer, Abort() and   *)
(* the clock can act between any two of them.  A payload is a sequence of  *)
(* bytes; Barrier() is the call with the empty payload.                    *)
(***************************************************************************)
EXTENDS Integers, Sequences

CONSTANTS
  World,      \* number of ranks (world_)
  Payloads,   \* the payloads ranks may pass, each a sequence of bytes
  MaxCalls    \* bound: calls of one rank between two Reset()s

ASSUME WorldAssumption == World \in Nat \ {0}
ASSUME PayloadAssumption == Payloads \subseteq Seq(Nat)
ASSUME MaxCallsAssumption == MaxCalls \in Nat

Ranks == 0 .. World - 1
Outcomes == {"none", "ok", "aborted", "timeout", "divergence"}
Points == {"idle", "write", "publish", "check", "scan", "late", "copy"}

VARIABLES
  arrive,    \* [rank]: the release-stored word the peers poll
  gen,       \* [rank]: this rank's call counter
  slot,      \* [rank][parity]: the two payload slots
  aborted,   \* aborted_
  pc,        \* [rank]: where the rank is inside AllGatherFor
  next,      \* [rank]: q of the copy loop, 0 outside it
  out,       \* [rank][q]: the caller's output buffer
  outcome,   \* [rank]: how the rank's latest call ended
  input      \* [rank]: ghost, the payloads of its calls since Reset()

exchangeVars == <<arrive, gen, slot, aborted, pc, next, out, outcome, input>>

SlotParity(g) == g % 2
CallsOf(r) == Len(input[r])        \* calls rank r entered since Reset()
Mine(r) == input[r][CallsOf(r)]

ExchangeInit ==
  /\ arrive = [r \in Ranks |-> 0]
  /\ gen = [r \in Ranks |-> 0]
  /\ slot = [r \in Ranks |-> [b \in {0, 1} |-> <<>>]]
  /\ aborted = FALSE
  /\ pc = [r \in Ranks |-> "idle"]
  /\ next = [r \in Ranks |-> 0]
  /\ out = [r \in Ranks |-> [q \in Ranks |-> <<>>]]
  /\ outcome = [r \in Ranks |-> "none"]
  /\ input = [r \in Ranks |-> <<>>]

Return(r, how) ==
  /\ pc' = [pc EXCEPT ![r] = "idle"]
  /\ outcome' = [outcome EXCEPT ![r] = how]

(* A call on an aborted group throws before it touches gen or a slot.      *)
EnterAborted(r) ==
  /\ pc[r] = "idle"
  /\ aborted
  /\ Return(r, "aborted")
  /\ UNCHANGED <<arrive, gen, slot, aborted, next, out, input>>

(* Otherwise g = ++gen, and the slot write begins.  The caller passes a    *)
(* fresh output buffer.                                                    *)
Begin(r, p) ==
  /\ pc[r] = "idle"
  /\ gen[r] < MaxCalls
  /\ gen' = [gen EXCEPT ![r] = @ + 1]
  /\ input' = [input EXCEPT ![r] = Append(@, p)]
  /\ pc' = [pc EXCEPT ![r] = "write"]
  /\ outcome' = [outcome EXCEPT ![r] = "none"]
  /\ out' = [out EXCEPT ![r] = [q \in Ranks |-> <<>>]]
  /\ UNCHANGED <<arrive, slot, aborted, next>>

\* Mutant: the abort flag is only tested inside the wait loop.
EnterUnchecked(r, p) == Begin(r, p)

Enter(r, p) == ~aborted /\ Begin(r, p)

(* The slot now holds the payload (resize and memcpy).                     *)
Write(r) ==
  /\ pc[r] = "write"
  /\ slot' = [slot EXCEPT ![r][SlotParity(gen[r])] = Mine(r)]
  /\ pc' = [pc EXCEPT ![r] = "publish"]
  /\ UNCHANGED <<arrive, gen, aborted, next, out, outcome, input>>

Publish(r) ==
  /\ pc[r] = "publish"
  /\ arrive' = [arrive EXCEPT ![r] = gen[r]]
  /\ pc' = [pc EXCEPT ![r] = "check"]
  /\ UNCHANGED <<gen, slot, aborted, next, out, outcome, input>>

(* Top of the wait loop: the abort flag is read before the arrive words.   *)
CheckAbort(r) ==
  /\ pc[r] = "check"
  /\ IF aborted
       THEN Return(r, "aborted")
       ELSE pc' = [pc EXCEPT ![r] = "scan"] /\ UNCHANGED outcome
  /\ UNCHANGED <<arrive, gen, slot, aborted, next, out, input>>

AllArrived(r) == \A q \in Ranks : arrive[q] >= gen[r]

(* The scan of the arrive words, which only grow: it breaks out of the     *)
(* loop, or finds a rank missing and then polls again or finds the wait    *)
(* bound exceeded.                                                         *)
ScanDone(r) ==
  /\ pc[r] = "scan"
  /\ AllArrived(r)
  /\ pc' = [pc EXCEPT ![r] = "copy"]
  /\ UNCHANGED <<arrive, gen, slot, aborted, next, out, outcome, input>>

ScanMissing(r) ==
  /\ pc[r] = "scan"
  /\ ~AllArrived(r)
  /\ pc' \in {[pc EXCEPT ![r] = "check"], [pc EXCEPT ![r] = "late"]}
  /\ UNCHANGED <<arrive, gen, slot, aborted, next, out, outcome, input>>

\* Mutant: the clock is read but nothing acts on it.
WaitIgnoresClock(r) ==
  /\ pc[r] = "late"
  /\ pc' = [pc EXCEPT ![r] = "check"]
  /\ UNCHANGED <<arrive, gen, slot, aborted, next, out, outcome, input>>

(* waited >= timeout, decided on the scan above even if the missing rank   *)
(* has arrived since: Abort(why) and throw.                                *)
WaitTimesOut(r) ==
  /\ pc[r] = "late"
  /\ aborted' = TRUE
  /\ Return(r, "timeout")
  /\ UNCHANGED <<arrive, gen, slot, next, out, input>>

(* The copy loop, one peer at a time; a size mismatch aborts the group.    *)
Copy(r) ==
  LET q == next[r]
      s == slot[q][SlotParity(gen[r])]
  IN
  /\ pc[r] = "copy"
  /\ q < World
  /\ IF Len(s) # Len(Mine(r))
       THEN /\ aborted' = TRUE
            /\ Return(r, "divergence")
            /\ next' = [next EXCEPT ![r] = 0]
            /\ UNCHANGED out
       ELSE /\ out' = [out EXCEPT ![r][q] = s]
            /\ next' = [next EXCEPT ![r] = q + 1]
            /\ UNCHANGED <<aborted, pc, outcome>>
  /\ UNCHANGED <<arrive, gen, slot, input>>

CopyDone(r) ==
  /\ pc[r] = "copy"
  /\ next[r] = World
  /\ next' = [next EXCEPT ![r] = 0]
  /\ Return(r, "ok")
  /\ UNCHANGED <<arrive, gen, slot, aborted, out, input>>

(* Abort(why) from outside a call: the facade, or a rank's failed forward. *)
Abort ==
  /\ aborted' = TRUE
  /\ UNCHANGED <<arrive, gen, slot, pc, next, out, outcome, input>>

(* Reset(), called by TpGroup::Recover with no rank inside a call; `counter` *)
(* is what it leaves in the call counters.                                 *)
ResetTo(counter) ==
  /\ \A r \in Ranks : pc[r] = "idle"
  /\ arrive' = [r \in Ranks |-> 0]
  /\ gen' = counter
  /\ slot' = [r \in Ranks |-> [b \in {0, 1} |-> [i \in DOMAIN slot[r][b] |-> 0]]]
  /\ aborted' = FALSE
  /\ input' = [r \in Ranks |-> <<>>]
  /\ outcome' = [r \in Ranks |-> "none"]
  /\ out' = [r \in Ranks |-> [q \in Ranks |-> <<>>]]
  /\ UNCHANGED <<pc, next>>

\* Mutant: the arrive words are zeroed, the call counters are not.
ResetKeepsGen == ResetTo(gen)

Reset == ResetTo([r \in Ranks |-> 0])

Step(r) ==
  \/ Write(r) \/ Publish(r) \/ CheckAbort(r)
  \/ ScanDone(r) \/ ScanMissing(r) \/ WaitTimesOut(r)
  \/ Copy(r) \/ CopyDone(r)

ExchangeNext ==
  \/ \E r \in Ranks : EnterAborted(r) \/ Step(r)
  \/ \E r \in Ranks, p \in Payloads : Enter(r, p)
  \/ Abort
  \/ Reset

ExchangeSpec == ExchangeInit /\ [][ExchangeNext]_exchangeVars

(* A rank's thread keeps running, and a wait that never succeeds is ended  *)
(* by its clock: the wait loop cannot poll forever.                        *)
GiveUp(r) == ScanMissing(r) /\ pc'[r] = "late"
ExchangeFairness == \A r \in Ranks : WF_exchangeVars(Step(r)) /\ SF_exchangeVars(GiveUp(r))
ExchangeFairSpec == ExchangeSpec /\ ExchangeFairness

-----------------------------------------------------------------------------
ExchangeTypeOK ==
  /\ arrive \in [Ranks -> Nat]
  /\ gen \in [Ranks -> Nat]
  /\ slot \in [Ranks -> [{0, 1} -> Seq(Nat)]]
  /\ aborted \in BOOLEAN
  /\ pc \in [Ranks -> Points]
  /\ next \in [Ranks -> 0 .. World]
  /\ out \in [Ranks -> [Ranks -> Seq(Nat)]]
  /\ outcome \in [Ranks -> Outcomes]
  /\ input \in [Ranks -> Seq(Payloads)]
  /\ \A r \in Ranks : pc[r] # "idle" => outcome[r] = "none"

(* The n-th call of a rank since Reset() that returned normally gathered   *)
(* exactly what every rank passed to ITS n-th call: never a slot of the    *)
(* previous or the next call, never one left over from before a recovery.  *)
GatherIsExact ==
  \A r \in Ranks : outcome[r] = "ok" =>
    \A q \in Ranks : CallsOf(q) >= CallsOf(r) /\ out[r][q] = input[q][CallsOf(r)]

(* The unlocked slots are never raced: while a rank still has peer q's     *)
(* slot of its call to copy, q is not rewriting that slot.  (In C++ the    *)
(* overlap would be a data race on a vector that is being resized.)        *)
NoSlotRace ==
  \A r, q \in Ranks :
    pc[r] = "copy" /\ next[r] <= q /\ pc[q] = "write"
      => SlotParity(gen[q]) # SlotParity(gen[r])

(* One step of the abstract gather is a whole call: the slots, the words   *)
(* and the wait loop implement Gather.  A rank that returns holds every    *)
(* rank's payload of the same call, all of the size it asked for; one that *)
(* throws a divergence met a payload of another size; the output buffer is *)
(* the gather's only once the call returned.                               *)
Inside == {r \in Ranks : pc[r] # "idle"}
Got == [r \in Ranks |-> IF outcome[r] = "ok" THEN out[r] ELSE [q \in Ranks |-> <<>>]]
Abstract == INSTANCE Gather WITH Rank <- Ranks, given <- input, inside <- Inside, got <- Got
Implements == Abstract!Spec

-----------------------------------------------------------------------------
(* The strengthening that makes the two safety properties inductive.       *)

(* The call counter counts the calls since Reset().                        *)
CountersMatch == \A r \in Ranks : CallsOf(r) = gen[r]

(* The arrive word trails the counter exactly while the call is unpublished. *)
ArriveTrails ==
  \A r \in Ranks :
    arrive[r] = IF pc[r] \in {"write", "publish"} THEN gen[r] - 1 ELSE gen[r]

(* Outside a call of a healthy group, and in the copy loop, every peer has *)
(* arrived at this rank's call.                                            *)
PeersArrived ==
  \A r \in Ranks :
    pc[r] = "copy" \/ outcome[r] = "ok" \/ (pc[r] = "idle" /\ ~aborted) => AllArrived(r)

(* No rank is ever more than one call ahead of what a peer published: the  *)
(* reason two slots are enough.                                            *)
OneCallAhead == \A r, q \in Ranks : gen[q] <= arrive[r] + 1

(* The two live generations of a rank's slots.                             *)
SlotsHoldInputs ==
  \A q \in Ranks :
    /\ gen[q] >= 1 /\ pc[q] # "write" => slot[q][SlotParity(gen[q])] = input[q][gen[q]]
    /\ gen[q] >= 2 => slot[q][SlotParity(gen[q] - 1)] = input[q][gen[q] - 1]

CopiedSoFar ==
  \A r \in Ranks : pc[r] = "copy" =>
    \A q \in Ranks : q < next[r] => out[r][q] = input[q][gen[r]]

(* What it copied has the size it asked for.                               *)
SizesMatch ==
  \A r \in Ranks : pc[r] = "copy" =>
    \A q \in Ranks : q < next[r] => Len(input[q][gen[r]]) = Len(input[r][gen[r]])

InCallHasGen ==
  \A r \in Ranks : pc[r] # "idle" \/ outcome[r] = "ok" => gen[r] >= 1

(* Outside the copy loop its index is 0.                                   *)
NextIsZero == \A r \in Ranks : pc[r] # "copy" => next[r] = 0

(* GatherIsExact, with the counter itself as the call's number.            *)
GatheredByGen ==
  \A r \in Ranks : outcome[r] = "ok" =>
    \A q \in Ranks : gen[q] >= gen[r] /\ out[r][q] = input[q][gen[r]]

IType == ExchangeTypeOK /\ CountersMatch

ExchangeIInv ==
  /\ IType /\ NextIsZero /\ ArriveTrails /\ PeersArrived /\ OneCallAhead
  /\ SlotsHoldInputs /\ CopiedSoFar /\ SizesMatch /\ InCallHasGen /\ GatheredByGen

(* Every call returns or throws: peers that never arrive, an abort at any  *)
(* point and a rank that stops calling cannot leave a rank inside.         *)
EveryCallReturns == \A r \in Ranks : pc[r] # "idle" ~> pc[r] = "idle"
=============================================================================
