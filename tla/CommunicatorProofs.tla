------------------------- MODULE CommunicatorProofs -------------------------
(***************************************************************************)
(* The two communicators a tensor-parallel group can reduce through.       *)
(*                                                                         *)
(* The host exchange: for every number of ranks, every payload set and     *)
(* every bound, it gathers exact payloads and never races a slot.  The     *)
(* proof is the invariance of HostExchange!ExchangeIInv, one step per      *)
(* action.                                                                 *)
(*                                                                         *)
(* The host mailbox: for any number of lanes, words, calls and recoveries  *)
(* and any modulus, the device all-reduce adds exactly the peer's words of *)
(* the same call, never takes a wrapped or aborted counter for a protocol  *)
(* violation, and never reports a call that a block skipped.  The proof is *)
(* the invariance of TpMailbox!IInv: the two counters of a lane stay       *)
(* within one call of each other wherever they are compared, so that the   *)
(* low bit of a sequence number is enough to keep the two mailbox slots    *)
(* apart.                                                                  *)
(***************************************************************************)
EXTENDS HostExchange, TpMailbox, TLAPS, FiniteSetTheorems, WellFoundedInduction

-----------------------------------------------------------------------------
(* The host exchange.                                                      *)

(* What every action but Reset does to the other parts of the state is     *)
(* arithmetic on parities: adjacent calls use different slots.             *)
LEMMA ParityFlips ==
  ASSUME NEW g \in Nat
  PROVE  /\ SlotParity(g) \in {0, 1}
         /\ SlotParity(g + 1) # SlotParity(g)
         /\ g >= 1 => SlotParity(g - 1) # SlotParity(g)
  BY DEF SlotParity

(* The copy loop's index stays within the ranks until it ends.             *)
LEMMA CopyIndex ==
  ASSUME NEW q \in 0 .. World, q < World
  PROVE  q \in Ranks /\ q + 1 \in 0 .. World /\ 0 \in 0 .. World
  BY WorldAssumption DEF Ranks

(* std::fill keeps a slot's size.                                          *)
LEMMA ZeroFill ==
  ASSUME NEW s \in Seq(Nat)
  PROVE  [i \in DOMAIN s |-> 0] \in Seq(Nat)
  <1>1. DOMAIN s = 1 .. Len(s) /\ Len(s) \in Nat
    OBVIOUS
  <1> QED BY <1>1

(* While a rank copies, each peer's slot of that parity holds the peer's   *)
(* payload of the same call.                                               *)
LEMMA CopySource ==
  ASSUME ExchangeIInv, NEW r \in Ranks, NEW q \in Ranks, pc[r] = "copy"
  PROVE  /\ slot[q][SlotParity(gen[r])] = input[q][gen[r]]
         /\ gen[q] \in {gen[r], gen[r] + 1}
         /\ gen[q] = gen[r] => pc[q] # "write"
  <1>1. gen[r] \in Nat /\ gen[q] \in Nat /\ arrive[q] \in Nat /\ arrive[r] \in Nat
    BY DEF ExchangeIInv, IType, ExchangeTypeOK, CountersMatch, CallsOf
  <1>2. arrive[q] >= gen[r] /\ arrive[r] = gen[r] /\ gen[r] >= 1
    BY DEF ExchangeIInv, PeersArrived, AllArrived, ArriveTrails, InCallHasGen
  <1>3. gen[q] <= gen[r] + 1
    BY <1>2 DEF ExchangeIInv, OneCallAhead
  <1>4. arrive[q] = IF pc[q] \in {"write", "publish"} THEN gen[q] - 1 ELSE gen[q]
    BY DEF ExchangeIInv, ArriveTrails
  <1>5. gen[q] \in {gen[r], gen[r] + 1} /\ (gen[q] = gen[r] => pc[q] # "write")
    BY <1>1, <1>2, <1>3, <1>4
  <1>6. CASE gen[q] = gen[r]
    BY <1>1, <1>2, <1>5, <1>6 DEF ExchangeIInv, SlotsHoldInputs
  <1>7. CASE gen[q] = gen[r] + 1
    <2>1. gen[q] >= 2 /\ gen[q] - 1 = gen[r]
      BY <1>1, <1>2, <1>7
    <2> QED BY <2>1, <1>5 DEF ExchangeIInv, SlotsHoldInputs
  <1> QED BY <1>5, <1>6, <1>7

(* IType is preserved by every step.                                       *)
LEMMA TypeStep == ExchangeIInv /\ [ExchangeNext]_exchangeVars => IType'
  <1> SUFFICES ASSUME IType, InCallHasGen, [ExchangeNext]_exchangeVars PROVE IType'
    BY DEF ExchangeIInv
  <1> USE WorldAssumption, PayloadAssumption DEF IType, ExchangeTypeOK, CountersMatch, CallsOf, Points, Outcomes
  <1>1. ASSUME NEW r \in Ranks, EnterAborted(r) PROVE IType'
    BY <1>1 DEF EnterAborted, Return
  <1>2. ASSUME NEW r \in Ranks, NEW p \in Payloads, Enter(r, p) PROVE IType'
    <2>1. <<>> \in Seq(Nat)
      OBVIOUS
    <2>2. input[r] \in Seq(Payloads) /\ gen[r] \in Nat /\ Len(input[r]) = gen[r]
      OBVIOUS
    <2>3. Append(input[r], p) \in Seq(Payloads) /\ Len(Append(input[r], p)) = gen[r] + 1
      BY <2>2
    <2>4. /\ out' \in [Ranks -> [Ranks -> Seq(Nat)]]
          /\ input' \in [Ranks -> Seq(Payloads)]
          /\ gen' \in [Ranks -> Nat]
      BY <1>2, <2>1, <2>2, <2>3 DEF Enter, Begin
    <2>5. \A q \in Ranks : Len(input'[q]) = gen'[q]
      BY <1>2, <2>2, <2>3 DEF Enter, Begin
    <2>6. \A q \in Ranks : pc'[q] # "idle" => outcome'[q] = "none"
      BY <1>2 DEF Enter, Begin
    <2> QED BY <1>2, <2>4, <2>5, <2>6 DEF Enter, Begin
  <1>3. ASSUME NEW r \in Ranks, Write(r) PROVE IType'
    <2>1. gen[r] \in Nat /\ gen[r] >= 1 /\ gen[r] <= Len(input[r]) /\ input[r] \in Seq(Payloads)
      BY <1>3 DEF Write, InCallHasGen
    <2>2. Mine(r) \in Seq(Nat)
      BY <2>1 DEF Mine
    <2>3. SlotParity(gen[r]) \in {0, 1}
      BY <2>1, ParityFlips
    <2>4. slot' \in [Ranks -> [{0, 1} -> Seq(Nat)]]
      BY <1>3, <2>2, <2>3 DEF Write
    <2> QED BY <1>3, <2>4 DEF Write
  <1>4. ASSUME NEW r \in Ranks, Publish(r) PROVE IType'
    <2>1. arrive' \in [Ranks -> Nat] /\ pc' \in [Ranks -> Points]
      BY <1>4 DEF Publish
    <2>2. \A q \in Ranks : pc'[q] # "idle" => outcome[q] = "none"
      BY <1>4 DEF Publish
    <2> QED BY <1>4, <2>1, <2>2 DEF Publish
  <1>5. ASSUME NEW r \in Ranks, CheckAbort(r) PROVE IType'
    <2>1. CASE aborted
      <3>1. /\ pc' = [pc EXCEPT ![r] = "idle"] /\ outcome' = [outcome EXCEPT ![r] = "aborted"]
            /\ UNCHANGED <<arrive, gen, slot, aborted, next, out, input>>
        BY <1>5, <2>1 DEF CheckAbort, Return
      <3> QED BY <3>1
    <2>2. CASE ~aborted
      BY <1>5, <2>2 DEF CheckAbort
    <2> QED BY <2>1, <2>2
  <1>6. ASSUME NEW r \in Ranks, ScanDone(r) PROVE IType'
    BY <1>6 DEF ScanDone
  <1>7. ASSUME NEW r \in Ranks, ScanMissing(r) PROVE IType'
    BY <1>7 DEF ScanMissing
  <1>8. ASSUME NEW r \in Ranks, WaitTimesOut(r) PROVE IType'
    BY <1>8 DEF WaitTimesOut, Return
  <1>9. ASSUME NEW r \in Ranks, Copy(r) PROVE IType'
    <2> DEFINE q == next[r]
               s == slot[q][SlotParity(gen[r])]
    <2>1. next[r] \in 0 .. World /\ q < World /\ World \in Nat
      BY <1>9 DEF Copy
    <2>2. q \in Ranks /\ q + 1 \in 0 .. World /\ 0 \in 0 .. World
      BY <2>1, CopyIndex
    <2>3. SlotParity(gen[r]) \in {0, 1}
      BY ParityFlips
    <2>4. s \in Seq(Nat)
      <3>1. slot[q] \in [{0, 1} -> Seq(Nat)]
        BY <2>2
      <3> QED BY <2>3, <3>1
    <2>5. CASE Len(s) # Len(Mine(r))
      <3>1. /\ aborted' = TRUE
            /\ pc' = [pc EXCEPT ![r] = "idle"]
            /\ outcome' = [outcome EXCEPT ![r] = "divergence"]
            /\ next' = [next EXCEPT ![r] = 0]
            /\ UNCHANGED <<arrive, gen, slot, out, input>>
        BY <1>9, <2>5 DEF Copy, Return
      <3> QED BY <2>2, <3>1
    <2>6. CASE Len(s) = Len(Mine(r))
      <3>1. out' = [out EXCEPT ![r][q] = s] /\ next' = [next EXCEPT ![r] = q + 1]
        BY <1>9, <2>6 DEF Copy
      <3>2. out' \in [Ranks -> [Ranks -> Seq(Nat)]]
        BY <3>1, <2>2, <2>4
      <3>3. next' \in [Ranks -> 0 .. World]
        BY <3>1, <2>2
      <3> QED BY <1>9, <2>6, <3>2, <3>3 DEF Copy
    <2> QED BY <2>5, <2>6
  <1>10. ASSUME NEW r \in Ranks, CopyDone(r) PROVE IType'
    BY <1>10 DEF CopyDone, Return
  <1>11. CASE Abort
    BY <1>11 DEF Abort
  <1>12. CASE Reset
    <2>1. <<>> \in Seq(Nat) /\ <<>> \in Seq(Payloads) /\ Len(<<>>) = 0
      OBVIOUS
    <2>2. \A s \in Seq(Nat) : [i \in DOMAIN s |-> 0] \in Seq(Nat)
      BY ZeroFill
    <2>3. slot' \in [Ranks -> [{0, 1} -> Seq(Nat)]]
      BY <1>12, <2>2 DEF Reset, ResetTo
    <2>4. /\ input' \in [Ranks -> Seq(Payloads)]
          /\ out' \in [Ranks -> [Ranks -> Seq(Nat)]]
          /\ arrive' \in [Ranks -> Nat] /\ gen' \in [Ranks -> Nat]
          /\ outcome' \in [Ranks -> Outcomes]
      BY <1>12, <2>1 DEF Reset, ResetTo
    <2>5. \A r \in Ranks : Len(input'[r]) = gen'[r] /\ outcome'[r] = "none"
      BY <1>12, <2>1 DEF Reset, ResetTo
    <2>6. pc' = pc /\ next' = next /\ aborted' = FALSE
      BY <1>12 DEF Reset, ResetTo
    <2> QED BY <2>3, <2>4, <2>5, <2>6
  <1>13. CASE UNCHANGED exchangeVars
    BY <1>13 DEF exchangeVars
  <1> QED
    BY <1>1, <1>2, <1>3, <1>4, <1>5, <1>6, <1>7, <1>8, <1>9, <1>10, <1>11, <1>12, <1>13
    DEF ExchangeNext, Step

(* ExchangeIInv holds initially: nobody is in a call and every counter is 0. *)
LEMMA InvInit == ExchangeInit => ExchangeIInv
  <1> SUFFICES ASSUME ExchangeInit PROVE ExchangeIInv
    OBVIOUS
  <1>1. 0 \in 0 .. World
    BY WorldAssumption
  <1>2. <<>> \in Seq(Nat) /\ <<>> \in Seq(Payloads) /\ Len(<<>>) = 0
    OBVIOUS
  <1>3. IType
    <2>1. /\ arrive \in [Ranks -> Nat] /\ gen \in [Ranks -> Nat]
          /\ aborted \in BOOLEAN /\ pc \in [Ranks -> Points]
          /\ next \in [Ranks -> 0 .. World] /\ outcome \in [Ranks -> Outcomes]
      BY <1>1 DEF ExchangeInit, Points, Outcomes
    <2>2. /\ slot \in [Ranks -> [{0, 1} -> Seq(Nat)]]
          /\ out \in [Ranks -> [Ranks -> Seq(Nat)]]
          /\ input \in [Ranks -> Seq(Payloads)]
      BY <1>2 DEF ExchangeInit
    <2>3. \A r \in Ranks : Len(input[r]) = gen[r] /\ pc[r] = "idle"
      BY <1>2 DEF ExchangeInit
    <2> QED BY <2>1, <2>2, <2>3 DEF IType, ExchangeTypeOK, CountersMatch, CallsOf
  <1>4. ArriveTrails /\ OneCallAhead /\ PeersArrived /\ NextIsZero
    BY DEF ExchangeInit, NextIsZero, ArriveTrails, OneCallAhead, PeersArrived, AllArrived
  <1>5. SlotsHoldInputs /\ CopiedSoFar /\ SizesMatch /\ InCallHasGen /\ GatheredByGen
    BY DEF ExchangeInit, SlotsHoldInputs, CopiedSoFar, SizesMatch, InCallHasGen, GatheredByGen
  <1> QED BY <1>3, <1>4, <1>5 DEF ExchangeIInv

(* A rank enters a call only when every peer has arrived at its previous   *)
(* one, so it never gets two calls ahead of a published arrive word.       *)
LEMMA EnterStep ==
  ASSUME ExchangeIInv, IType', NEW r \in Ranks, NEW p \in Payloads, Enter(r, p)
  PROVE  ExchangeIInv'
  <1>1. /\ gen' = [gen EXCEPT ![r] = gen[r] + 1]
        /\ input' = [input EXCEPT ![r] = Append(input[r], p)]
        /\ pc' = [pc EXCEPT ![r] = "write"]
        /\ outcome' = [outcome EXCEPT ![r] = "none"]
        /\ out' = [out EXCEPT ![r] = [q \in Ranks |-> <<>>]]
        /\ arrive' = arrive /\ slot' = slot /\ aborted' = aborted /\ next' = next
        /\ pc[r] = "idle" /\ ~aborted
    BY DEF Enter, Begin
  <1>2. /\ gen \in [Ranks -> Nat] /\ arrive \in [Ranks -> Nat]
        /\ pc \in [Ranks -> Points] /\ outcome \in [Ranks -> Outcomes]
        /\ input \in [Ranks -> Seq(Payloads)] /\ out \in [Ranks -> [Ranks -> Seq(Nat)]]
        /\ \A q \in Ranks : Len(input[q]) = gen[q]
    BY DEF ExchangeIInv, IType, ExchangeTypeOK, CountersMatch, CallsOf
  <1>3. \A q \in Ranks : arrive[q] >= gen[r]
    BY <1>1 DEF ExchangeIInv, PeersArrived, AllArrived
  <1>4. \A q \in Ranks : \A k \in 1 .. gen[q] : input'[q][k] = input[q][k]
    BY <1>1, <1>2
  <1>5. ArriveTrails'
    BY <1>1, <1>2 DEF ExchangeIInv, ArriveTrails
  <1>6. PeersArrived'
    BY <1>1, <1>2, <1>3 DEF ExchangeIInv, PeersArrived, AllArrived
  <1>7. OneCallAhead'
    <2> SUFFICES ASSUME NEW t \in Ranks, NEW q \in Ranks PROVE gen'[q] <= arrive[t] + 1
      BY <1>1 DEF OneCallAhead
    <2>1. gen[q] <= arrive[t] + 1
      BY DEF ExchangeIInv, OneCallAhead
    <2>2. CASE q = r
      BY <1>1, <1>2, <1>3, <2>2
    <2>3. CASE q # r
      BY <1>1, <1>2, <2>1, <2>3
    <2> QED BY <2>2, <2>3
  <1>8. SlotsHoldInputs'
    <2> SUFFICES ASSUME NEW q \in Ranks
        PROVE /\ gen'[q] >= 1 /\ pc'[q] # "write" => slot[q][SlotParity(gen'[q])] = input'[q][gen'[q]]
              /\ gen'[q] >= 2 => slot[q][SlotParity(gen'[q] - 1)] = input'[q][gen'[q] - 1]
      BY <1>1 DEF SlotsHoldInputs
    <2>1. /\ gen[q] >= 1 /\ pc[q] # "write" => slot[q][SlotParity(gen[q])] = input[q][gen[q]]
          /\ gen[q] >= 2 => slot[q][SlotParity(gen[q] - 1)] = input[q][gen[q] - 1]
      BY DEF ExchangeIInv, SlotsHoldInputs
    <2>2. CASE q = r
      <3>1. gen'[q] = gen[q] + 1 /\ gen'[q] - 1 = gen[q] /\ pc'[q] = "write" /\ pc[q] # "write"
        BY <1>1, <1>2, <2>2
      <3>2. gen[q] >= 1 => gen[q] \in 1 .. gen[q]
        BY <1>2
      <3>3. gen[q] >= 1 => slot[q][SlotParity(gen[q])] = input'[q][gen[q]]
        BY <1>4, <2>1, <3>1, <3>2
      <3>4. gen'[q] >= 2 => gen[q] >= 1
        BY <1>2, <3>1
      <3> QED BY <3>1, <3>3, <3>4
    <2>3. CASE q # r
      <3>1. gen'[q] = gen[q] /\ pc'[q] = pc[q] /\ gen[q] \in Nat
        BY <1>1, <1>2, <2>3
      <3> QED BY <1>4, <2>1, <3>1
    <2> QED BY <2>2, <2>3
  <1>9. CopiedSoFar' /\ SizesMatch'
    <2> SUFFICES ASSUME NEW t \in Ranks, pc'[t] = "copy", NEW q \in Ranks, q < next[t]
                 PROVE  /\ out'[t][q] = input'[q][gen'[t]]
                        /\ Len(input'[q][gen'[t]]) = Len(input'[t][gen'[t]])
      BY <1>1 DEF CopiedSoFar, SizesMatch
    <2>1. t # r /\ pc[t] = "copy" /\ gen'[t] = gen[t] /\ out'[t] = out[t]
      BY <1>1, <1>2
    <2>2. out[t][q] = input[q][gen[t]] /\ arrive[q] >= gen[t] /\ gen[t] >= 1
      BY <2>1 DEF ExchangeIInv, CopiedSoFar, PeersArrived, AllArrived, InCallHasGen
    <2>3. gen[q] >= arrive[q]
      <3>1. arrive[q] = IF pc[q] \in {"write", "publish"} THEN gen[q] - 1 ELSE gen[q]
        BY DEF ExchangeIInv, ArriveTrails
      <3>2. gen[q] \in Nat
        BY <1>2
      <3> QED BY <3>1, <3>2
    <2>4. gen[t] \in 1 .. gen[q] /\ gen[t] \in 1 .. gen[t]
      BY <1>2, <2>2, <2>3
    <2>5. Len(input[q][gen[t]]) = Len(input[t][gen[t]])
      BY <2>1 DEF ExchangeIInv, SizesMatch
    <2> QED BY <1>4, <2>1, <2>2, <2>4, <2>5
  <1>10. InCallHasGen' /\ NextIsZero'
    BY <1>1, <1>2 DEF ExchangeIInv, InCallHasGen, NextIsZero
  <1>11. GatheredByGen'
    <2> SUFFICES ASSUME NEW t \in Ranks, outcome'[t] = "ok", NEW q \in Ranks
                 PROVE  gen'[q] >= gen'[t] /\ out'[t][q] = input'[q][gen'[t]]
      BY DEF GatheredByGen
    <2>1. t # r /\ outcome[t] = "ok" /\ gen'[t] = gen[t] /\ out'[t] = out[t]
      BY <1>1, <1>2
    <2>2. gen[q] >= gen[t] /\ out[t][q] = input[q][gen[t]] /\ gen[t] >= 1
      BY <2>1 DEF ExchangeIInv, GatheredByGen, InCallHasGen
    <2>3. gen[q] \in Nat /\ gen[t] \in Nat /\ gen'[q] \in {gen[q], gen[q] + 1}
      BY <1>1, <1>2
    <2>4. gen[t] \in 1 .. gen[q] /\ gen'[q] >= gen[t]
      BY <2>2, <2>3
    <2> QED BY <1>4, <2>1, <2>2, <2>4
  <1> QED BY <1>5, <1>6, <1>7, <1>8, <1>9, <1>10, <1>11 DEF ExchangeIInv

(* Writing the slot of the call just entered leaves the previous call's    *)
(* slot, the one slower peers may be copying, alone.                       *)
LEMMA WriteStep ==
  ASSUME ExchangeIInv, IType', NEW r \in Ranks, Write(r)
  PROVE  ExchangeIInv'
  <1>1. /\ slot' = [slot EXCEPT ![r][SlotParity(gen[r])] = Mine(r)]
        /\ pc' = [pc EXCEPT ![r] = "publish"] /\ pc[r] = "write"
        /\ UNCHANGED <<arrive, gen, aborted, next, out, outcome, input>>
    BY DEF Write
  <1>2. /\ gen \in [Ranks -> Nat] /\ pc \in [Ranks -> Points]
        /\ slot \in [Ranks -> [{0, 1} -> Seq(Nat)]]
    BY DEF ExchangeIInv, IType, ExchangeTypeOK, CountersMatch, CallsOf
  <1>3. gen[r] \in Nat /\ gen[r] >= 1
    BY <1>1, <1>2 DEF ExchangeIInv, InCallHasGen
  <1>4. ArriveTrails' /\ PeersArrived' /\ OneCallAhead' /\ InCallHasGen' /\ NextIsZero'
    BY <1>1, <1>2 DEF ExchangeIInv, ArriveTrails, PeersArrived, AllArrived, OneCallAhead, InCallHasGen, NextIsZero
  <1>5. CopiedSoFar' /\ SizesMatch' /\ GatheredByGen'
    BY <1>1, <1>2 DEF ExchangeIInv, CopiedSoFar, SizesMatch, GatheredByGen
  <1>6. SlotsHoldInputs'
    <2> SUFFICES ASSUME NEW q \in Ranks
        PROVE /\ gen[q] >= 1 /\ pc'[q] # "write" => slot'[q][SlotParity(gen[q])] = input[q][gen[q]]
              /\ gen[q] >= 2 => slot'[q][SlotParity(gen[q] - 1)] = input[q][gen[q] - 1]
      BY <1>1 DEF SlotsHoldInputs
    <2>1. /\ gen[q] >= 1 /\ pc[q] # "write" => slot[q][SlotParity(gen[q])] = input[q][gen[q]]
          /\ gen[q] >= 2 => slot[q][SlotParity(gen[q] - 1)] = input[q][gen[q] - 1]
      BY DEF ExchangeIInv, SlotsHoldInputs
    <2>2. CASE q # r
      BY <1>1, <1>2, <2>1, <2>2
    <2>3. CASE q = r
      <3>1. SlotParity(gen[r]) \in {0, 1} /\ SlotParity(gen[r] - 1) # SlotParity(gen[r])
        BY <1>3, ParityFlips
      <3>2. slot'[r][SlotParity(gen[r])] = Mine(r) /\ Mine(r) = input[r][gen[r]]
        BY <1>1, <1>2, <3>1 DEF ExchangeIInv, IType, CountersMatch, Mine
      <3>3. slot'[r][SlotParity(gen[r] - 1)] = slot[r][SlotParity(gen[r] - 1)]
        BY <1>1, <1>2, <3>1
      <3> QED BY <2>1, <2>3, <3>2, <3>3
    <2> QED BY <2>2, <2>3
  <1> QED BY <1>4, <1>5, <1>6 DEF ExchangeIInv

(* Publishing raises one arrive word to the rank's counter.                *)
LEMMA PublishStep ==
  ASSUME ExchangeIInv, IType', NEW r \in Ranks, Publish(r)
  PROVE  ExchangeIInv'
  <1>1. /\ arrive' = [arrive EXCEPT ![r] = gen[r]]
        /\ pc' = [pc EXCEPT ![r] = "check"] /\ pc[r] = "publish"
        /\ UNCHANGED <<gen, slot, aborted, next, out, outcome, input>>
    BY DEF Publish
  <1>2. /\ gen \in [Ranks -> Nat] /\ arrive \in [Ranks -> Nat] /\ pc \in [Ranks -> Points]
    BY DEF ExchangeIInv, IType, ExchangeTypeOK, CountersMatch, CallsOf
  <1>3. arrive[r] = gen[r] - 1
    BY <1>1 DEF ExchangeIInv, ArriveTrails
  <1>4. \A q \in Ranks : arrive'[q] >= arrive[q] /\ arrive'[q] \in Nat
    BY <1>1, <1>2, <1>3
  <1>5. ArriveTrails' /\ InCallHasGen' /\ NextIsZero'
    BY <1>1, <1>2 DEF ExchangeIInv, ArriveTrails, InCallHasGen, NextIsZero
  <1>6. PeersArrived'
    <2> SUFFICES ASSUME NEW t \in Ranks, NEW q \in Ranks,
                        pc'[t] = "copy" \/ outcome[t] = "ok" \/ (pc'[t] = "idle" /\ ~aborted)
                 PROVE  arrive'[q] >= gen[t]
      BY <1>1 DEF PeersArrived, AllArrived
    <2>1. pc[t] = "copy" \/ outcome[t] = "ok" \/ (pc[t] = "idle" /\ ~aborted)
      BY <1>1, <1>2
    <2>2. arrive[q] >= gen[t]
      BY <2>1 DEF ExchangeIInv, PeersArrived, AllArrived
    <2> QED BY <1>2, <1>4, <2>2
  <1>7. OneCallAhead'
    <2> SUFFICES ASSUME NEW t \in Ranks, NEW q \in Ranks PROVE gen[q] <= arrive'[t] + 1
      BY <1>1 DEF OneCallAhead
    <2>1. gen[q] <= arrive[t] + 1
      BY DEF ExchangeIInv, OneCallAhead
    <2> QED BY <1>2, <1>4, <2>1
  <1>8. SlotsHoldInputs' /\ CopiedSoFar' /\ SizesMatch' /\ GatheredByGen'
    BY <1>1, <1>2 DEF ExchangeIInv, SlotsHoldInputs, CopiedSoFar, SizesMatch, GatheredByGen
  <1> QED BY <1>5, <1>6, <1>7, <1>8 DEF ExchangeIInv

(* The steps that only move a rank through the wait loop, or end its call  *)
(* on an abort, leave every counter and slot alone.                        *)
LEMMA WaitStep ==
  ASSUME ExchangeIInv, IType', NEW r \in Ranks,
         \/ EnterAborted(r) \/ CheckAbort(r) \/ ScanDone(r)
         \/ ScanMissing(r) \/ WaitTimesOut(r)
  PROVE  ExchangeIInv'
  <1> DEFINE Quiet(point, how) ==
        /\ pc' = [pc EXCEPT ![r] = point]
        /\ outcome' = [outcome EXCEPT ![r] = how]
        /\ UNCHANGED <<arrive, gen, slot, next, out, input>>
        /\ aborted => aborted'
  <1>1. /\ pc \in [Ranks -> Points] /\ outcome \in [Ranks -> Outcomes]
        /\ next \in [Ranks -> 0 .. World] /\ aborted \in BOOLEAN
        /\ gen \in [Ranks -> Nat]
        /\ \A q \in Ranks : pc[q] # "idle" => outcome[q] = "none"
    BY DEF ExchangeIInv, IType, ExchangeTypeOK, CountersMatch, CallsOf
  <1>2. \E point \in {"idle", "check", "scan", "late", "copy"}, how \in {"none", "aborted", "timeout"} :
          /\ Quiet(point, how)
          /\ point = "idle" => aborted'
          /\ point # "idle" => pc[r] # "idle"
          /\ point = "copy" => AllArrived(r) /\ next[r] = 0
    <2>1. CASE EnterAborted(r)
      BY <2>1, <1>1 DEF EnterAborted, Return
    <2>2. CASE CheckAbort(r)
      BY <2>2, <1>1 DEF CheckAbort, Return
    <2>3. CASE ScanDone(r)
      BY <2>3, <1>1 DEF ScanDone, ExchangeIInv, NextIsZero
    <2>4. CASE ScanMissing(r)
      BY <2>4, <1>1 DEF ScanMissing
    <2>5. CASE WaitTimesOut(r)
      BY <2>5, <1>1 DEF WaitTimesOut, Return
    <2> QED BY <2>1, <2>2, <2>3, <2>4, <2>5
  <1>3. PICK point \in {"idle", "check", "scan", "late", "copy"},
             how \in {"none", "aborted", "timeout"} :
          /\ Quiet(point, how)
          /\ point = "idle" => aborted'
          /\ point # "idle" => pc[r] # "idle"
          /\ point = "copy" => AllArrived(r) /\ next[r] = 0
    BY <1>2
  <1>4. arrive[r] = gen[r] /\ pc[r] \notin {"write", "publish", "copy"}
    <2>1. pc[r] \notin {"write", "publish", "copy"}
      BY DEF EnterAborted, CheckAbort, ScanDone, ScanMissing, WaitTimesOut
    <2> QED BY <2>1 DEF ExchangeIInv, ArriveTrails
  <1>5. ArriveTrails' /\ OneCallAhead' /\ InCallHasGen' /\ NextIsZero'
    BY <1>1, <1>3, <1>4 DEF ExchangeIInv, ArriveTrails, OneCallAhead, InCallHasGen, NextIsZero
  <1>6. PeersArrived'
    BY <1>1, <1>3 DEF ExchangeIInv, PeersArrived, AllArrived
  <1>7. SlotsHoldInputs'
    BY <1>1, <1>3, <1>4 DEF ExchangeIInv, SlotsHoldInputs
  <1>8. CopiedSoFar' /\ SizesMatch'
    <2> SUFFICES ASSUME NEW t \in Ranks, pc'[t] = "copy", NEW q \in Ranks, q < next[t]
                 PROVE  /\ out[t][q] = input[q][gen[t]]
                        /\ Len(input[q][gen[t]]) = Len(input[t][gen[t]])
      BY <1>3 DEF CopiedSoFar, SizesMatch
    <2>1. CASE t = r
      BY <1>1, <1>3, <2>1 DEF Ranks
    <2>2. CASE t # r
      BY <1>1, <1>3, <2>2 DEF ExchangeIInv, CopiedSoFar, SizesMatch
    <2> QED BY <2>1, <2>2
  <1>9. GatheredByGen'
    BY <1>1, <1>3 DEF ExchangeIInv, GatheredByGen
  <1> QED BY <1>5, <1>6, <1>7, <1>8, <1>9 DEF ExchangeIInv

(* One turn of the copy loop takes the peer's payload of the same call     *)
(* (CopySource), or aborts the group.                                      *)
LEMMA CopyStep ==
  ASSUME ExchangeIInv, IType', NEW r \in Ranks, Copy(r)
  PROVE  ExchangeIInv'
  <1> DEFINE n == next[r]
             s == slot[n][SlotParity(gen[r])]
  <1>1. /\ pc \in [Ranks -> Points] /\ outcome \in [Ranks -> Outcomes]
        /\ next \in [Ranks -> 0 .. World] /\ out \in [Ranks -> [Ranks -> Seq(Nat)]]
        /\ gen \in [Ranks -> Nat]
    BY DEF ExchangeIInv, IType, ExchangeTypeOK, CountersMatch, CallsOf
  <1>2. pc[r] = "copy" /\ n < World /\ UNCHANGED <<arrive, gen, slot, input>>
    BY DEF Copy
  <1>3. n \in Ranks
    BY <1>1, <1>2, CopyIndex
  <1>4. CASE Len(s) # Len(Mine(r))
    <2>1. /\ aborted' = TRUE /\ out' = out
          /\ pc' = [pc EXCEPT ![r] = "idle"]
          /\ outcome' = [outcome EXCEPT ![r] = "divergence"]
          /\ next' = [next EXCEPT ![r] = 0]
      BY <1>4 DEF Copy, Return
    <2>2. ArriveTrails' /\ OneCallAhead' /\ InCallHasGen' /\ NextIsZero'
      BY <1>1, <1>2, <2>1 DEF ExchangeIInv, ArriveTrails, OneCallAhead, InCallHasGen, NextIsZero
    <2>3. PeersArrived' /\ SlotsHoldInputs'
      BY <1>1, <1>2, <2>1 DEF ExchangeIInv, PeersArrived, AllArrived, SlotsHoldInputs
    <2>4. CopiedSoFar' /\ SizesMatch' /\ GatheredByGen'
      BY <1>1, <1>2, <2>1 DEF ExchangeIInv, CopiedSoFar, SizesMatch, GatheredByGen
    <2> QED BY <2>2, <2>3, <2>4 DEF ExchangeIInv
  <1>5. CASE Len(s) = Len(Mine(r))
    <2>1. /\ out' = [out EXCEPT ![r][n] = s]
          /\ next' = [next EXCEPT ![r] = n + 1]
          /\ UNCHANGED <<aborted, pc, outcome>>
      BY <1>5 DEF Copy
    <2>2. ArriveTrails' /\ OneCallAhead' /\ InCallHasGen' /\ NextIsZero'
      BY <1>1, <1>2, <2>1 DEF ExchangeIInv, ArriveTrails, OneCallAhead, InCallHasGen, NextIsZero
    <2>3. PeersArrived' /\ SlotsHoldInputs'
      BY <1>1, <1>2, <2>1 DEF ExchangeIInv, PeersArrived, AllArrived, SlotsHoldInputs
    <2>4. s = input[n][gen[r]]
      BY <1>2, <1>3, CopySource
    <2>5. CopiedSoFar'
      <3> SUFFICES ASSUME NEW t \in Ranks, pc[t] = "copy", NEW q \in Ranks, q < next'[t]
                   PROVE  out'[t][q] = input[q][gen[t]]
        BY <1>2, <2>1 DEF CopiedSoFar
      <3>1. q < next[t] => out[t][q] = input[q][gen[t]]
        BY DEF ExchangeIInv, CopiedSoFar
      <3>2. CASE t = r /\ q = n
        BY <1>1, <1>3, <2>1, <2>4, <3>2
      <3>3. CASE t = r /\ q # n
        <4>1. next'[t] = n + 1 /\ n \in Nat /\ q \in Nat
          BY <1>1, <1>3, <2>1, <3>3, WorldAssumption DEF Ranks
        <4>2. q < next[t]
          BY <3>3, <4>1
        <4> QED BY <1>1, <1>3, <2>1, <3>1, <3>3, <4>2
      <3>4. CASE t # r
        BY <1>1, <1>3, <2>1, <3>1, <3>4
      <3> QED BY <3>2, <3>3, <3>4
    <2>6. GatheredByGen'
      <3>1. outcome[r] = "none"
        BY <1>2 DEF ExchangeIInv, IType, ExchangeTypeOK, CountersMatch, CallsOf
      <3> QED BY <1>1, <1>2, <2>1, <3>1 DEF ExchangeIInv, GatheredByGen
    <2>7. SizesMatch'
      <3> SUFFICES ASSUME NEW t \in Ranks, pc[t] = "copy", NEW q \in Ranks, q < next'[t]
                   PROVE  Len(input[q][gen[t]]) = Len(input[t][gen[t]])
        BY <1>2, <2>1 DEF SizesMatch
      <3>1. q < next[t] => Len(input[q][gen[t]]) = Len(input[t][gen[t]])
        BY DEF ExchangeIInv, SizesMatch
      <3>2. CASE t = r /\ q = n
        <4>1. Mine(r) = input[r][gen[r]]
          BY DEF Mine, ExchangeIInv, IType, CountersMatch
        <4> QED BY <1>5, <2>4, <3>2, <4>1
      <3>3. CASE t = r /\ q # n
        <4>1. next'[t] = n + 1 /\ n \in Nat /\ q \in Nat
          BY <1>1, <1>3, <2>1, <3>3, WorldAssumption DEF Ranks
        <4> QED BY <3>1, <3>3, <4>1
      <3>4. CASE t # r
        BY <1>1, <2>1, <3>1, <3>4
      <3> QED BY <3>2, <3>3, <3>4
    <2> QED BY <2>2, <2>3, <2>5, <2>6, <2>7 DEF ExchangeIInv
  <1> QED BY <1>4, <1>5

(* The call returns once every peer's payload is copied.                   *)
LEMMA CopyDoneStep ==
  ASSUME ExchangeIInv, IType', NEW r \in Ranks, CopyDone(r)
  PROVE  ExchangeIInv'
  <1>1. /\ pc \in [Ranks -> Points] /\ outcome \in [Ranks -> Outcomes]
        /\ next \in [Ranks -> 0 .. World] /\ gen \in [Ranks -> Nat]
        /\ arrive \in [Ranks -> Nat]
    BY DEF ExchangeIInv, IType, ExchangeTypeOK, CountersMatch, CallsOf
  <1>2. /\ pc[r] = "copy" /\ next[r] = World
        /\ pc' = [pc EXCEPT ![r] = "idle"] /\ outcome' = [outcome EXCEPT ![r] = "ok"]
        /\ next' = [next EXCEPT ![r] = 0]
        /\ UNCHANGED <<arrive, gen, slot, aborted, out, input>>
    BY DEF CopyDone, Return
  <1>3. ArriveTrails' /\ OneCallAhead' /\ InCallHasGen' /\ NextIsZero'
    BY <1>1, <1>2 DEF ExchangeIInv, ArriveTrails, OneCallAhead, InCallHasGen, NextIsZero
  <1>4. PeersArrived' /\ SlotsHoldInputs' /\ CopiedSoFar' /\ SizesMatch'
    BY <1>1, <1>2 DEF ExchangeIInv, PeersArrived, AllArrived, SlotsHoldInputs, CopiedSoFar, SizesMatch
  <1>5. GatheredByGen'
    <2> SUFFICES ASSUME NEW t \in Ranks, outcome'[t] = "ok", NEW q \in Ranks
                 PROVE  gen[q] >= gen[t] /\ out[t][q] = input[q][gen[t]]
      BY <1>2 DEF GatheredByGen
    <2>1. CASE t = r
      <3>1. q < next[r]
        BY <1>2, WorldAssumption DEF Ranks
      <3>2. out[r][q] = input[q][gen[r]]
        BY <1>2, <3>1 DEF ExchangeIInv, CopiedSoFar
      <3>3. gen[q] \in {gen[r], gen[r] + 1}
        BY <1>2, CopySource
      <3> QED BY <1>1, <2>1, <3>2, <3>3
    <2>2. CASE t # r
      BY <1>1, <1>2, <2>2 DEF ExchangeIInv, GatheredByGen
    <2> QED BY <2>1, <2>2
  <1> QED BY <1>3, <1>4, <1>5 DEF ExchangeIInv

(* Abort only raises the flag; Reset starts a new epoch with no rank in a  *)
(* call.                                                                   *)
LEMMA AbortResetStep ==
  ASSUME ExchangeIInv, IType', Abort \/ Reset
  PROVE  ExchangeIInv'
  <1>1. CASE Abort
    BY <1>1 DEF Abort, ExchangeIInv, ArriveTrails, PeersArrived, AllArrived, OneCallAhead,
                SlotsHoldInputs, CopiedSoFar, SizesMatch, InCallHasGen, GatheredByGen, NextIsZero
  <1>2. CASE Reset
    <2>1. \A r \in Ranks : pc'[r] = "idle" /\ gen'[r] = 0 /\ arrive'[r] = 0
                            /\ outcome'[r] = "none" /\ next'[r] = next[r] /\ pc[r] = "idle"
      BY <1>2 DEF Reset, ResetTo
    <2>2. ArriveTrails' /\ OneCallAhead' /\ InCallHasGen' /\ PeersArrived'
      BY <2>1 DEF ArriveTrails, OneCallAhead, InCallHasGen, PeersArrived, AllArrived
    <2>3. SlotsHoldInputs' /\ CopiedSoFar' /\ SizesMatch' /\ GatheredByGen' /\ NextIsZero'
      BY <2>1 DEF ExchangeIInv, SlotsHoldInputs, CopiedSoFar, SizesMatch, GatheredByGen, NextIsZero
    <2> QED BY <2>2, <2>3 DEF ExchangeIInv
  <1> QED BY <1>1, <1>2

(* ExchangeIInv is an inductive invariant of the exchange.                 *)
THEOREM ExchangeInvHolds == ExchangeSpec => []ExchangeIInv
  <1>1. ExchangeIInv /\ [ExchangeNext]_exchangeVars => ExchangeIInv'
    <2> SUFFICES ASSUME ExchangeIInv, [ExchangeNext]_exchangeVars PROVE ExchangeIInv'
      OBVIOUS
    <2>1. IType'
      BY TypeStep
    <2>2. CASE UNCHANGED exchangeVars
      BY <2>2 DEF exchangeVars, ExchangeIInv, IType, ExchangeTypeOK, CountersMatch, CallsOf, ArriveTrails, PeersArrived, AllArrived, OneCallAhead,
                  SlotsHoldInputs, CopiedSoFar, SizesMatch, InCallHasGen, GatheredByGen, NextIsZero
    <2> QED
      BY <2>1, <2>2, EnterStep, WriteStep, PublishStep, WaitStep, CopyStep, CopyDoneStep,
         AbortResetStep DEF ExchangeNext, Step
  <1> QED BY InvInit, <1>1, PTL DEF ExchangeSpec

(* Type correctness: counters, slots, outputs and program points keep their *)
(* types, and no call in progress has an outcome yet.                      *)
THEOREM ExchangeTypeOKHolds == ExchangeSpec => []ExchangeTypeOK
  <1>1. ExchangeIInv => ExchangeTypeOK
    BY DEF ExchangeIInv, IType
  <1> QED BY <1>1, ExchangeInvHolds, PTL

(* AllGatherFor returns exactly the payloads every rank passed to the same *)
(* call, for any number of ranks, under every interleaving with Abort().   *)
THEOREM GatherIsExactHolds == ExchangeSpec => []GatherIsExact
  <1>1. ExchangeIInv => GatherIsExact
    BY DEF ExchangeIInv, IType, CountersMatch, GatheredByGen, GatherIsExact
  <1> QED BY <1>1, ExchangeInvHolds, PTL

(* No rank rewrites a slot a peer still has to copy: the two-slot parity   *)
(* scheme needs no lock.                                                   *)
THEOREM NoSlotRaceHolds == ExchangeSpec => []NoSlotRace
  <1>1. ExchangeIInv => NoSlotRace
    <2> SUFFICES ASSUME ExchangeIInv, NEW r \in Ranks, NEW q \in Ranks,
                        pc[r] = "copy", pc[q] = "write"
                 PROVE  SlotParity(gen[q]) # SlotParity(gen[r])
      BY DEF NoSlotRace
    <2>1. gen[q] = gen[r] + 1 /\ gen[r] \in Nat
      BY CopySource DEF ExchangeIInv, IType, ExchangeTypeOK
    <2> QED BY <2>1, ParityFlips
  <1> QED BY <1>1, ExchangeInvHolds, PTL

(* A step that keeps the calls, the flag, who is in a call and how the     *)
(* latest calls ended, and the outputs of the calls that returned, is a    *)
(* stutter of the abstract gather.                                         *)
LEMMA QuietStep ==
  ASSUME UNCHANGED <<input, aborted, outcome>>,
         \A r \in Ranks : (pc'[r] # "idle") = (pc[r] # "idle"),
         \A r \in Ranks : outcome[r] = "ok" => out'[r] = out[r]
  PROVE  UNCHANGED Abstract!vars
  <1>1. Inside' = Inside
    BY DEF Inside
  <1>2. Got' = Got
    BY DEF Got
  <1> QED BY <1>1, <1>2 DEF Abstract!vars

(* A rank that ends its call without success, or refuses it, leaves the    *)
(* calls in progress and gathers nothing.                                  *)
LEMMA LeaveStep ==
  ASSUME ExchangeIInv, NEW r \in Ranks, NEW how \in Outcomes \ {"ok"},
         pc' = [pc EXCEPT ![r] = "idle"],
         outcome' = [outcome EXCEPT ![r] = how], UNCHANGED out
  PROVE  /\ Inside' = Inside \ {r}
         /\ Got' = [Got EXCEPT ![r] = Abstract!Blank]
         /\ outcome[r] # "ok" => Got' = Got
  <1>1. pc \in [Ranks -> Points] /\ outcome \in [Ranks -> Outcomes]
    BY DEF ExchangeIInv, IType, ExchangeTypeOK, CountersMatch, CallsOf
  <1>2. Inside' = Inside \ {r}
    BY <1>1 DEF Inside
  <1>3. \A q \in Ranks : outcome'[q] = IF q = r THEN how ELSE outcome[q]
    BY <1>1
  <1>4. Got' = [Got EXCEPT ![r] = Abstract!Blank]
    BY <1>3 DEF Got, Abstract!Blank
  <1>5. outcome[r] # "ok" => Got' = Got
    BY <1>3 DEF Got
  <1> QED BY <1>2, <1>4, <1>5

(* Entering a call is the abstract Call, and a refused call is Refuse.     *)
LEMMA EnterImplements ==
  ASSUME ExchangeIInv, NEW r \in Ranks
  PROVE  /\ EnterAborted(r) => Abstract!Refuse(r)
         /\ \A p \in Payloads : Enter(r, p) => Abstract!Call(r, p)
  <1>1. /\ pc \in [Ranks -> Points] /\ outcome \in [Ranks -> Outcomes]
        /\ out \in [Ranks -> [Ranks -> Seq(Nat)]]
    BY DEF ExchangeIInv, IType, ExchangeTypeOK, CountersMatch, CallsOf
  <1>2. ASSUME EnterAborted(r) PROVE Abstract!Refuse(r)
    <2>1. /\ pc[r] = "idle" /\ aborted /\ pc' = [pc EXCEPT ![r] = "idle"]
          /\ outcome' = [outcome EXCEPT ![r] = "aborted"]
          /\ UNCHANGED <<out, input, aborted>>
      BY <1>2 DEF EnterAborted, Return
    <2>2. Inside' = Inside \ {r} /\ Got' = [Got EXCEPT ![r] = Abstract!Blank]
      BY <2>1, LeaveStep DEF Outcomes
    <2>3. r \notin Inside
      BY <2>1 DEF Inside
    <2> QED BY <2>1, <2>2, <2>3 DEF Abstract!Refuse
  <1>3. ASSUME NEW p \in Payloads, Enter(r, p) PROVE Abstract!Call(r, p)
    <2>1. /\ pc[r] = "idle" /\ ~aborted /\ pc' = [pc EXCEPT ![r] = "write"]
          /\ outcome' = [outcome EXCEPT ![r] = "none"]
          /\ out' = [out EXCEPT ![r] = [q \in Ranks |-> <<>>]]
          /\ input' = [input EXCEPT ![r] = Append(@, p)] /\ UNCHANGED aborted
      BY <1>3 DEF Enter, Begin
    <2>2. Inside' = Inside \cup {r} /\ r \notin Inside
      BY <1>1, <2>1 DEF Inside
    <2>3. Got' = [Got EXCEPT ![r] = Abstract!Blank]
      BY <1>1, <2>1 DEF Got, Abstract!Blank
    <2> QED BY <2>1, <2>2, <2>3 DEF Abstract!Call
  <1> QED BY <1>2, <1>3

(* While a rank copies, every peer has joined its call.                    *)
LEMMA CopyHasJoined ==
  ASSUME ExchangeIInv, NEW r \in Ranks, pc[r] = "copy", NEW q \in Ranks
  PROVE  Abstract!Joined(r, q) /\ Abstract!Given(r, q) = input[q][gen[r]]
  <1>1. /\ Len(input[q]) = gen[q] /\ gen[q] \in Nat
        /\ Len(input[r]) = gen[r] /\ gen[r] \in Nat
    BY DEF ExchangeIInv, IType, ExchangeTypeOK, CountersMatch, CallsOf
  <1>2. gen[q] \in {gen[r], gen[r] + 1}
    BY CopySource
  <1> QED BY <1>1, <1>2 DEF Abstract!Joined, Abstract!Given, Abstract!Number

(* A turn of the copy loop shows nothing, or is the abstract Diverged.     *)
LEMMA CopyImplements ==
  ASSUME ExchangeIInv, NEW r \in Ranks, Copy(r)
  PROVE  Abstract!Diverged(r) \/ UNCHANGED Abstract!vars
  <1> DEFINE n == next[r]
             s == slot[n][SlotParity(gen[r])]
  <1>1. /\ pc \in [Ranks -> Points] /\ outcome \in [Ranks -> Outcomes]
        /\ next \in [Ranks -> 0 .. World] /\ out \in [Ranks -> [Ranks -> Seq(Nat)]]
        /\ pc[r] = "copy" /\ n < World /\ outcome[r] = "none" /\ UNCHANGED input
    BY DEF Copy, ExchangeIInv, IType, ExchangeTypeOK, CountersMatch, CallsOf
  <1>2. n \in Ranks
    BY <1>1, CopyIndex
  <1>3. CASE Len(s) = Len(Mine(r))
    <2>1. out' = [out EXCEPT ![r][n] = s] /\ UNCHANGED <<aborted, pc, outcome>>
      BY <1>3 DEF Copy
    <2>2. \A q \in Ranks : outcome[q] = "ok" => out'[q] = out[q]
      BY <1>1, <2>1
    <2> QED BY <1>1, <2>1, <2>2, QuietStep
  <1>4. CASE Len(s) # Len(Mine(r))
    <2>1. /\ aborted' = TRUE /\ out' = out
          /\ pc' = [pc EXCEPT ![r] = "idle"]
          /\ outcome' = [outcome EXCEPT ![r] = "divergence"]
      BY <1>4 DEF Copy, Return
    <2>2. Inside' = Inside \ {r} /\ Got' = Got
      BY <1>1, <2>1, LeaveStep DEF Outcomes
    <2>3. r \in Inside
      BY <1>1 DEF Inside
    <2>4. s = input[n][gen[r]]
      BY <1>1, <1>2, CopySource
    <2>5. Mine(r) = input[r][gen[r]]
      BY DEF Mine, ExchangeIInv, IType, CountersMatch
    <2>6. /\ \A q \in Ranks : Abstract!Joined(r, q)
          /\ Abstract!Given(r, n) = s /\ Abstract!Given(r, r) = Mine(r)
      BY <1>1, <1>2, <2>4, <2>5, CopyHasJoined
    <2>7. \E q \in Ranks : Len(Abstract!Given(r, q)) # Len(Abstract!Given(r, r))
      BY <1>2, <1>4, <2>6
    <2> QED BY <1>1, <2>1, <2>2, <2>3, <2>6, <2>7 DEF Abstract!Diverged, Abstract!Leave
  <1> QED BY <1>3, <1>4

(* The return of a call is the abstract Gathered: the output buffer holds  *)
(* every rank's payload of the call, all of one size.                      *)
LEMMA CopyDoneImplements ==
  ASSUME ExchangeIInv, NEW r \in Ranks, CopyDone(r)
  PROVE  Abstract!Gathered(r)
  <1>1. /\ pc \in [Ranks -> Points] /\ outcome \in [Ranks -> Outcomes]
        /\ out \in [Ranks -> [Ranks -> Seq(Nat)]]
    BY DEF ExchangeIInv, IType, ExchangeTypeOK, CountersMatch, CallsOf
  <1>2. /\ pc[r] = "copy" /\ next[r] = World
        /\ pc' = [pc EXCEPT ![r] = "idle"] /\ outcome' = [outcome EXCEPT ![r] = "ok"]
        /\ UNCHANGED <<aborted, out, input>>
    BY DEF CopyDone, Return
  <1>3. \A q \in Ranks : q < next[r]
    BY <1>2, WorldAssumption DEF Ranks
  <1>4. \A q \in Ranks : /\ out[r][q] = Abstract!Given(r, q)
                         /\ Len(Abstract!Given(r, q)) = Len(Abstract!Given(r, r))
                         /\ Abstract!Joined(r, q)
    BY <1>2, <1>3, CopyHasJoined DEF ExchangeIInv, CopiedSoFar, SizesMatch
  <1>5. out[r] = [q \in Ranks |-> Abstract!Given(r, q)]
    BY <1>1, <1>4
  <1>6. Inside' = Inside \ {r} /\ r \in Inside
    BY <1>1, <1>2 DEF Inside
  <1>7. Got' = [Got EXCEPT ![r] = [q \in Ranks |-> Abstract!Given(r, q)]]
    BY <1>1, <1>2, <1>5 DEF Got
  <1> QED BY <1>2, <1>4, <1>6, <1>7 DEF Abstract!Gathered, Abstract!Leave

(* The steps of the wait loop show nothing, or end the call on an abort or *)
(* on the clock.                                                           *)
LEMMA WaitImplements ==
  ASSUME ExchangeIInv, NEW r \in Ranks,
         \/ Write(r) \/ Publish(r) \/ CheckAbort(r)
         \/ ScanDone(r) \/ ScanMissing(r) \/ WaitTimesOut(r)
  PROVE  Abstract!Aborted(r) \/ Abstract!TimedOut(r) \/ UNCHANGED Abstract!vars
  <1>1. /\ pc \in [Ranks -> Points] /\ outcome \in [Ranks -> Outcomes]
        /\ \A q \in Ranks : pc[q] # "idle" => outcome[q] = "none"
    BY DEF ExchangeIInv, IType, ExchangeTypeOK, CountersMatch, CallsOf
  <1>2. pc[r] # "idle" /\ outcome[r] = "none" /\ UNCHANGED <<out, input>> /\ r \in Inside
    BY <1>1 DEF Write, Publish, CheckAbort, ScanDone, ScanMissing, WaitTimesOut, Inside
  <1>3. ASSUME pc' = [pc EXCEPT ![r] = "idle"],
               NEW how \in {"aborted", "timeout"}, outcome' = [outcome EXCEPT ![r] = how]
        PROVE  Abstract!Leave(r, how) /\ UNCHANGED Got
    BY <1>2, <1>3, LeaveStep DEF Outcomes, Abstract!Leave
  <1>4. CASE WaitTimesOut(r)
    BY <1>2, <1>3, <1>4 DEF WaitTimesOut, Return, Abstract!TimedOut
  <1>5. CASE CheckAbort(r) /\ aborted
    BY <1>2, <1>3, <1>5 DEF CheckAbort, Return, Abstract!Aborted
  <1>6. CASE \/ Write(r) \/ Publish(r) \/ (CheckAbort(r) /\ ~aborted)
             \/ ScanDone(r) \/ ScanMissing(r)
    <2>1. UNCHANGED <<aborted, outcome>>
      BY <1>6 DEF Write, Publish, CheckAbort, ScanDone, ScanMissing
    <2>2. \E point \in Points \ {"idle"} : pc' = [pc EXCEPT ![r] = point]
      BY <1>6 DEF Write, Publish, CheckAbort, ScanDone, ScanMissing, Points
    <2>3. \A q \in Ranks : (pc'[q] # "idle") = (pc[q] # "idle")
      BY <1>1, <1>2, <2>2
    <2> QED BY <1>2, <2>1, <2>3, QuietStep
  <1> QED BY <1>4, <1>5, <1>6

(* Abort and Reset are the abstract ones.                                  *)
LEMMA AbortResetImplements ==
  ASSUME ExchangeIInv
  PROVE  (Abort => Abstract!Abort) /\ (Reset => Abstract!Reset)
  <1>1. ASSUME Abort PROVE Abstract!Abort
    <2>1. Inside' = Inside /\ Got' = Got
      BY <1>1 DEF Abort, Inside, Got
    <2> QED BY <1>1, <2>1 DEF Abort, Abstract!Abort
  <1>2. ASSUME Reset PROVE Abstract!Reset
    <2>1. /\ \A r \in Ranks : pc[r] = "idle"
          /\ pc' = pc /\ aborted' = FALSE
          /\ input' = [r \in Ranks |-> <<>>] /\ outcome' = [r \in Ranks |-> "none"]
      BY <1>2 DEF Reset, ResetTo
    <2>2. Inside = {} /\ Inside' = {}
      BY <2>1 DEF Inside
    <2>3. Got' = [r \in Ranks |-> Abstract!Blank]
      BY <2>1 DEF Got, Abstract!Blank
    <2> QED BY <2>1, <2>2, <2>3 DEF Abstract!Reset
  <1> QED BY <1>1, <1>2

(* AllGatherFor implements the abstract gather: with any number of ranks,  *)
(* under every interleaving, abort, time-out and recovery, the slots, the  *)
(* words and the wait loop cannot be told from calls that gather in one    *)
(* step.                                                                   *)
THEOREM ImplementsHolds == ExchangeSpec => Implements
  <1>1. ExchangeInit => Abstract!Init
    <2> SUFFICES ASSUME ExchangeInit PROVE Abstract!Init
      OBVIOUS
    <2>1. Inside = {} /\ Got = [r \in Ranks |-> Abstract!Blank]
      BY DEF ExchangeInit, Inside, Got, Abstract!Blank
    <2> QED BY <2>1 DEF ExchangeInit, Abstract!Init
  <1>2. ExchangeIInv /\ [ExchangeNext]_exchangeVars => [Abstract!Next]_(Abstract!vars)
    <2> SUFFICES ASSUME ExchangeIInv, [ExchangeNext]_exchangeVars PROVE [Abstract!Next]_(Abstract!vars)
      OBVIOUS
    <2>1. ASSUME NEW r \in Ranks, EnterAborted(r) \/ Step(r)
          PROVE  [Abstract!Next]_(Abstract!vars)
      <3>1. CASE EnterAborted(r)
        BY <3>1, EnterImplements DEF Abstract!Next
      <3>2. CASE Copy(r)
        BY <3>2, CopyImplements DEF Abstract!Next
      <3>3. CASE CopyDone(r)
        BY <3>3, CopyDoneImplements DEF Abstract!Next
      <3>4. CASE \/ Write(r) \/ Publish(r) \/ CheckAbort(r)
                 \/ ScanDone(r) \/ ScanMissing(r) \/ WaitTimesOut(r)
        BY <3>4, WaitImplements DEF Abstract!Next
      <3> QED BY <2>1, <3>1, <3>2, <3>3, <3>4 DEF Step
    <2>2. ASSUME NEW r \in Ranks, NEW p \in Payloads, Enter(r, p)
          PROVE  [Abstract!Next]_(Abstract!vars)
      BY <2>2, EnterImplements DEF Abstract!Next
    <2>3. CASE Abort \/ Reset
      BY <2>3, AbortResetImplements DEF Abstract!Next
    <2>4. CASE UNCHANGED exchangeVars
      BY <2>4, QuietStep DEF exchangeVars
    <2> QED BY <2>1, <2>2, <2>3, <2>4 DEF ExchangeNext
  <1> QED BY <1>1, <1>2, ExchangeInvHolds, PTL DEF ExchangeSpec, Implements, Abstract!Spec

-----------------------------------------------------------------------------
(* Sequence numbers.                                                       *)

(* A product with a positive factor is no smaller than the other one. *)
LEMMA Product ==
  ASSUME NEW d \in Int, NEW m \in Int, d >= 1, m >= 1
  PROVE  m * d >= m
  OBVIOUS

(* Quotient and remainder are unique. *)
LEMMA DivisionIsUnique ==
  ASSUME NEW m \in Nat \ {0}, NEW q \in Int, NEW p \in Int, NEW a \in Nat, NEW b \in Nat,
         a < m, b < m, (m * q) + a = (m * p) + b
  PROVE  a = b
  <1>1. ~(q > p)
    <2> SUFFICES ASSUME q > p PROVE FALSE
      OBVIOUS
    <2>1. m * (q - p) >= m
      BY Product
    <2>2. m * (q - p) = (m * q) - (m * p)
      OBVIOUS
    <2> QED BY <2>1, <2>2
  <1>2. ~(q < p)
    <2> SUFFICES ASSUME q < p PROVE FALSE
      OBVIOUS
    <2>1. m * (p - q) >= m
      BY Product
    <2>2. m * (p - q) = (m * p) - (m * q)
      OBVIOUS
    <2> QED BY <2>1, <2>2
  <1>3. q = p
    BY <1>1, <1>2
  <1> QED BY <1>3

(* A remainder counts up by one and wraps at the modulus. *)
LEMMA NextRemainder ==
  ASSUME NEW m \in Nat \ {0}, NEW x \in Nat
  PROVE  /\ x % m \in 0 .. m - 1
         /\ (x + 1) % m = IF x % m = m - 1 THEN 0 ELSE (x % m) + 1
  <1> DEFINE q == x \div m
             a == x % m
             p == (x + 1) \div m
             b == (x + 1) % m
  <1>1. x = (m * q) + a /\ q \in Int /\ a \in 0 .. m - 1
    OBVIOUS
  <1>2. x + 1 = (m * p) + b /\ p \in Int /\ b \in 0 .. m - 1
    OBVIOUS
  <1> HIDE DEF q, a, p, b
  <1>3. b = IF a = m - 1 THEN 0 ELSE a + 1
    <2>1. CASE a = m - 1
      <3>1. (m * (q + 1)) + 0 = (m * p) + b
        BY <1>1, <1>2, <2>1
      <3>2. b = 0
        BY <1>1, <1>2, <3>1, DivisionIsUnique
      <3> QED BY <2>1, <3>2
    <2>2. CASE a # m - 1
      <3>1. (m * q) + (a + 1) = (m * p) + b /\ a + 1 \in Nat /\ a + 1 < m
        BY <1>1, <1>2, <2>2
      <3>2. b = a + 1
        BY <1>1, <1>2, <3>1, DivisionIsUnique
      <3> QED BY <2>2, <3>2
    <2> QED BY <2>1, <2>2
  <1> QED BY <1>1, <1>3 DEF a, b

(* The wrap-around needs room for two calls on either side. *)
LEMMA ModulusFacts ==
  /\ Modulus \in Nat \ {0} /\ Modulus >= 4
  /\ Modulus \div 2 \in Nat /\ Modulus \div 2 >= 2 /\ Modulus \div 2 <= Modulus - 2
  BY SizeAssumption

(* The numbers of two consecutive calls: the second is the first plus one, *)
(* modulo, and of the other parity.                                        *)
LEMMA NextNumber ==
  ASSUME NEW b \in Nat, NEW n \in Nat
  PROVE  /\ Num(b, n) \in 0 .. Modulus - 1
         /\ Num(b, n + 1) = IF Num(b, n) = Modulus - 1 THEN 0 ELSE Num(b, n) + 1
         /\ Num(b, n + 1) = (Num(b, n) + 1) % Modulus
         /\ Parity(b, n) \in {0, 1} /\ Parity(b, n + 1) = 1 - Parity(b, n)
  <1>1. /\ Num(b, n) \in 0 .. Modulus - 1
        /\ Num(b, n + 1) = IF Num(b, n) = Modulus - 1 THEN 0 ELSE Num(b, n) + 1
    <2>1. b + n \in Nat /\ b + (n + 1) = (b + n) + 1
      OBVIOUS
    <2> QED BY <2>1, NextRemainder, ModulusFacts DEF Num
  <1>2. Num(b, n + 1) = (Num(b, n) + 1) % Modulus
    BY <1>1, ModulusFacts
  <1>3. Parity(b, n) \in {0, 1} /\ Parity(b, n + 1) = 1 - Parity(b, n)
    BY <1>1, SizeAssumption DEF Parity
  <1> QED BY <1>1, <1>2, <1>3

(* How a wait sees a peer that is level, one call ahead or one behind. *)
LEMMA NearOffsets ==
  ASSUME NEW b \in Nat, NEW n \in Nat
  PROVE  /\ AtLeast(Num(b, n), Num(b, n)) /\ Offset(Num(b, n), Num(b, n)) < 2
         /\ AtLeast(Num(b, n + 1), Num(b, n)) /\ Offset(Num(b, n + 1), Num(b, n)) < 2
         /\ ~AtLeast(Num(b, n), Num(b, n + 1))
  <1>1. ASSUME NEW x \in 0 .. Modulus - 1, NEW y \in 0 .. Modulus - 1
        PROVE  Offset(x, y) = IF x >= y THEN x - y ELSE (x - y) + Modulus
    BY ModulusFacts DEF Offset
  <1>2. /\ Num(b, n) \in 0 .. Modulus - 1 /\ Num(b, n + 1) \in 0 .. Modulus - 1
        /\ Num(b, n + 1) = IF Num(b, n) = Modulus - 1 THEN 0 ELSE Num(b, n) + 1
    BY NextNumber
  <1>3. /\ Offset(Num(b, n), Num(b, n)) = 0
        /\ Offset(Num(b, n + 1), Num(b, n)) = 1
        /\ Offset(Num(b, n), Num(b, n + 1)) = Modulus - 1
    BY <1>1, <1>2, ModulusFacts
  <1> QED BY <1>3, ModulusFacts DEF AtLeast

-----------------------------------------------------------------------------
(* Counting the calls of a lane.                                           *)

(* A lane's calls are counted one by one. *)
LEMMA CallsCount ==
  ASSUME NEW p, NEW l, NEW k \in Nat
  PROVE  /\ Calls(p, l, 0) = 0
         /\ Calls(p, l, k) \in 0 .. k
         /\ Calls(p, l, k + 1) = Calls(p, l, k) + (IF l \in p[k + 1] THEN 1 ELSE 0)
  <1> DEFINE S(n) == {i \in 1 .. n : l \in p[i]}
  <1>1. S(0) = {}
    OBVIOUS
  <1>2. Calls(p, l, 0) = 0
    BY <1>1, FS_EmptySet DEF Calls
  <1>3. IsFiniteSet(1 .. k) /\ Cardinality(1 .. k) = k
    BY FS_Interval
  <1>4. IsFiniteSet(S(k)) /\ Cardinality(S(k)) <= k
    BY <1>3, FS_Subset
  <1>5. Calls(p, l, k) \in 0 .. k
    BY <1>4, FS_CardinalityType DEF Calls
  <1>6. Calls(p, l, k + 1) = Calls(p, l, k) + (IF l \in p[k + 1] THEN 1 ELSE 0)
    <2>1. CASE l \in p[k + 1]
      <3>1. S(k + 1) = S(k) \cup {k + 1} /\ k + 1 \notin S(k)
        BY <2>1
      <3> QED BY <1>4, <2>1, <3>1, FS_AddElement DEF Calls
    <2>2. CASE l \notin p[k + 1]
      <3>1. S(k + 1) = S(k)
        BY <2>2
      <3>2. Calls(p, l, k + 1) = Calls(p, l, k)
        BY <3>1 DEF Calls
      <3> QED BY <1>5, <2>2, <3>2
    <2> QED BY <2>1, <2>2
  <1> QED BY <1>2, <1>5, <1>6

(* A lane's n-th call is one call. *)
LEMMA CallsUnique ==
  ASSUME NEW p, NEW l, NEW j \in Nat \ {0}, NEW k \in Nat \ {0}, l \in p[j], l \in p[k],
         Calls(p, l, j) = Calls(p, l, k)
  PROVE  j = k
  <1>1. ASSUME NEW x \in Nat \ {0}, NEW y \in Nat \ {0}, x < y, l \in p[y]
        PROVE  Calls(p, l, x) < Calls(p, l, y)
    <2> DEFINE S(n) == {i \in 1 .. n : l \in p[i]}
    <2>0. ASSUME NEW n \in Nat PROVE IsFiniteSet(S(n))
      <3>1. IsFiniteSet(1 .. n) /\ S(n) \in SUBSET (1 .. n)
        BY FS_Interval
      <3> QED BY <3>1, FS_Subset
    <2>1. IsFiniteSet(S(x)) /\ IsFiniteSet(S(y))
      BY <2>0
    <2>2. S(x) \in SUBSET S(y) /\ y \in S(y) /\ y \notin S(x)
      BY <1>1
    <2>3. Cardinality(S(x)) <= Cardinality(S(y)) /\ Cardinality(S(x)) # Cardinality(S(y))
      BY <2>1, <2>2, FS_Subset
    <2>4. Cardinality(S(x)) \in Nat /\ Cardinality(S(y)) \in Nat
      BY <2>1, FS_CardinalityType
    <2> QED BY <2>3, <2>4 DEF Calls
  <1>2. Calls(p, l, j) \in Nat
    BY CallsCount
  <1>3. ~(j < k) /\ ~(k < j)
    BY <1>1, <1>2
  <1> QED BY <1>3

-----------------------------------------------------------------------------
(* What the steps touch.                                                   *)

(* There are two ranks, each the other's peer. *)
LEMMA RankFacts ==
  ASSUME NEW r \in Rank
  PROVE  /\ Peer(r) \in Rank /\ Peer(r) # r /\ Peer(Peer(r)) = r
         /\ \A q \in Rank : q = r \/ q = Peer(r)
  BY DEF Rank, Peer

(* A set of naturals has a least element. *)
LEMMA LeastNatural ==
  ASSUME NEW T \in SUBSET Nat, T # {}
  PROVE  \E m \in T : \A n \in T : m <= n
  <1>1. PICK m \in T : \A n \in T : ~(<<n, m>> \in OpToRel(<, Nat))
    BY NatLessThanWellFounded, WFMin
  <1>2. ASSUME NEW n \in T PROVE m <= n
    <2>1. ~(<<n, m>> \in OpToRel(<, Nat))
      BY <1>1
    <2>2. n \in Nat /\ m \in Nat
      OBVIOUS
    <2>3. ~(n < m)
      BY <2>1, <2>2 DEF OpToRel
    <2> QED BY <2>2, <2>3
  <1> QED BY <1>2

(* The largest advance exists: the numbers are bounded by the modulus. *)
LEMMA LargestAdvance ==
  ASSUME TypeOK, Lanes # {}, NEW r \in Rank
  PROVE  SeqAdvance(r) \in Nat
  <1> DEFINE adv == {Offset(seq[r][l], base) : l \in Lanes}
             U == {m \in Nat : \A n \in adv : n <= m}
  <1>1. \A l \in Lanes : Offset(seq[r][l], base) \in 0 .. Modulus - 1
    <2>1. \A l \in Lanes : seq[r][l] \in 0 .. Modulus - 1 /\ base \in 0 .. Modulus - 1
      BY DEF TypeOK
    <2> QED BY <2>1, ModulusFacts DEF Offset
  <1>2. adv \subseteq 0 .. Modulus - 1 /\ adv # {}
    BY <1>1
  <1>3. Modulus \in U /\ U \in SUBSET Nat
    BY <1>2, ModulusFacts
  <1>4. PICK m \in U : \A n \in U : m <= n
    BY <1>3, LeastNatural
  <1>5. m \in adv
    <2> SUFFICES ASSUME m \notin adv PROVE FALSE
      OBVIOUS
    <2>1. \A n \in adv : n <= m - 1 /\ n \in Nat
      BY <1>2, <1>4
    <2>2. m - 1 \in U
      BY <1>2, <1>4, <2>1
    <2> QED BY <1>4, <2>2
  <1>6. \E x \in adv : \A n \in adv : n <= x
    BY <1>4, <1>5
  <1>7. SeqAdvance(r) \in adv
    BY <1>6 DEF SeqAdvance
  <1> QED BY <1>2, <1>7

(* A block's step touches its own lane only: its place, its counter, the   *)
(* flag and the slots it writes; and it may make its rank sticky.          *)
OwnOnly(r, l) ==
  /\ UNCHANGED <<prog, run, issued, base, host>>
  /\ at[r][l] # "off"
  /\ \A q \in Rank, m \in Lanes : q # r \/ m # l =>
       /\ at'[q][m] = at[q][m] /\ word'[q][m] = word[q][m] /\ seq'[q][m] = seq[q][m]
       /\ flag'[Peer(q)][m] = flag[Peer(q)][m]
       /\ \A s \in {0, 1} : box'[Peer(q)][s][m] = box[Peer(q)][s][m]
  /\ \A q \in Rank : sticky[q] => sticky'[q]
  /\ \A q \in Rank : q # r => sticky'[q] = sticky[q] /\ short'[q] = short[q]

(* How a block moves. *)
LEMMA MoveShape ==
  ASSUME TypeOK, NEW r \in Rank, NEW l \in Lanes, NEW to \in Places, Move(r, l, to)
  PROVE  /\ at' \in [Rank -> [Lanes -> Places]] /\ at'[r][l] = to
         /\ \A q \in Rank, m \in Lanes : q # r \/ m # l => at'[q][m] = at[q][m]
  BY DEF TypeOK, Move

(* The word loops. *)
LEMMA NextWordShape ==
  ASSUME TypeOK, NEW r \in Rank, NEW l \in Lanes, NEW after \in Places, NextWord(r, l, after)
  PROVE  /\ at' \in [Rank -> [Lanes -> Places]] /\ word' \in [Rank -> [Lanes -> 1 .. Words]]
         /\ \/ word[r][l] < Words /\ word'[r][l] = word[r][l] + 1 /\ at' = at
            \/ word[r][l] = Words /\ word'[r][l] = 1 /\ at'[r][l] = after
         /\ \A q \in Rank, m \in Lanes : q # r \/ m # l =>
              at'[q][m] = at[q][m] /\ word'[q][m] = word[q][m]
  <1>1. word[r][l] \in 1 .. Words /\ Words \in Nat /\ 1 \in 1 .. Words
    BY SizeAssumption DEF TypeOK
  <1>2. CASE word[r][l] < Words
    <2>1. word' = [word EXCEPT ![r][l] = @ + 1] /\ at' = at /\ word[r][l] + 1 \in 1 .. Words
      BY <1>1, <1>2 DEF NextWord
    <2> QED BY <1>2, <2>1 DEF TypeOK
  <1>3. CASE ~(word[r][l] < Words)
    <2>1. word' = [word EXCEPT ![r][l] = 1] /\ Move(r, l, after)
      BY <1>3 DEF NextWord
    <2>2. word' \in [Rank -> [Lanes -> 1 .. Words]] /\ word'[r][l] = 1
          /\ \A q \in Rank, m \in Lanes : q # r \/ m # l => word'[q][m] = word[q][m]
      <3>1. word \in [Rank -> [Lanes -> 1 .. Words]]
        BY DEF TypeOK
      <3>2. word' = [word EXCEPT ![r][l] = 1] /\ 1 \in 1 .. Words
        BY <1>1, <2>1
      <3> QED BY <3>1, <3>2
    <2>3. /\ at' \in [Rank -> [Lanes -> Places]] /\ at'[r][l] = after
          /\ \A q \in Rank, m \in Lanes : q # r \/ m # l => at'[q][m] = at[q][m]
      BY <2>1, MoveShape
    <2>4. word[r][l] = Words
      BY <1>1, <1>3
    <2> QED BY <2>2, <2>3, <2>4
  <1> QED BY <1>2, <1>3

(* The types of what a block stores. *)
LEMMA StoredTypes ==
  ASSUME TypeOK, NEW r \in Rank, NEW l \in Lanes
  PROVE  /\ Tag(r) \in Nat \X Nat /\ Slot(r, l) \in {0, 1} /\ word[r][l] \in 1 .. Words /\ box \in Boxes
         /\ issued[r] \in 0 .. CallsPerRun /\ run \in Nat /\ seq[r][l] \in 0 .. Modulus - 1
  <1>1. /\ issued[r] \in 0 .. CallsPerRun /\ run \in Nat /\ seq[r][l] \in 0 .. Modulus - 1
        /\ word[r][l] \in 1 .. Words /\ box \in Boxes
    BY DEF TypeOK
  <1>2. issued[r] \in Nat
    BY <1>1, SizeAssumption
  <1>3. Slot(r, l) \in {0, 1}
    BY <1>1, ModulusFacts DEF Slot
  <1> QED BY <1>1, <1>2, <1>3 DEF Tag

(* A word of a mailbox. *)
LEMMA BoxWord ==
  ASSUME NEW b \in Boxes, NEW q \in Rank, NEW s \in {0, 1}, NEW l \in Lanes, NEW w \in 1 .. Words
  PROVE  b[q][s][l][w] \in Nat \X Nat
  <1>1. b[q][s] \in [Lanes -> [1 .. Words -> Nat \X Nat]]
    BY DEF Boxes
  <1>2. b[q][s][l] \in [1 .. Words -> Nat \X Nat]
    BY <1>1
  <1> QED BY <1>2

(* A push stores one word in the peer's mailbox. *)
LEMMA PushShape ==
  ASSUME TypeOK, NEW r \in Rank, NEW l \in Lanes, Push(r, l)
  PROVE  /\ box' \in Boxes
         /\ box'[Peer(r)][Slot(r, l)][l][word[r][l]] = Tag(r)
         /\ \A v \in 1 .. Words : v # word[r][l] =>
              box'[Peer(r)][Slot(r, l)][l][v] = box[Peer(r)][Slot(r, l)][l][v]
         /\ \A p \in Rank, z \in {0, 1}, m \in Lanes :
              p # Peer(r) \/ z # Slot(r, l) \/ m # l => box'[p][z][m] = box[p][z][m]
  <1>1. ASSUME NEW q \in Rank, NEW s \in {0, 1}, NEW w \in 1 .. Words, NEW x \in Nat \X Nat,
               NEW b \in Boxes, NEW c,
               q = Peer(r), s = Slot(r, l), w = word[r][l], x = Tag(r), b = box, c = box'
        PROVE  /\ c \in Boxes
               /\ c[q][s][l][w] = x
               /\ \A v \in 1 .. Words : v # w => c[q][s][l][v] = b[q][s][l][v]
               /\ \A p \in Rank, z \in {0, 1}, m \in Lanes :
                    p # q \/ z # s \/ m # l => c[p][z][m] = b[p][z][m]
    <2> DEFINE Row == [1 .. Words -> Nat \X Nat]
               row == [b[q][s][l] EXCEPT ![w] = x]
               lane == [b[q][s] EXCEPT ![l] = row]
               half == [b[q] EXCEPT ![s] = lane]
    <2>1. b \in [Rank -> [{0, 1} -> [Lanes -> Row]]] /\ c = [b EXCEPT ![q] = half]
      BY <1>1 DEF Boxes, Push
    <2>2. b[q][s][l] \in Row
      BY <2>1
    <2>3. row \in Row /\ row[w] = x /\ \A v \in 1 .. Words : v # w => row[v] = b[q][s][l][v]
      BY <2>2
    <2> HIDE DEF Row, row
    <2>4. lane \in [Lanes -> Row] /\ lane[l] = row /\ \A m \in Lanes : m # l => lane[m] = b[q][s][m]
      BY <2>1, <2>3
    <2> HIDE DEF lane
    <2>5. /\ half \in [{0, 1} -> [Lanes -> Row]] /\ half[s] = lane
          /\ \A z \in {0, 1} : z # s => half[z] = b[q][z]
      BY <2>1, <2>4
    <2> HIDE DEF half
    <2>6. c \in [Rank -> [{0, 1} -> [Lanes -> Row]]] /\ c[q] = half /\ \A p \in Rank : p # q => c[p] = b[p]
      BY <2>1, <2>5
    <2>7. c \in Boxes
      BY <2>6 DEF Boxes, Row
    <2>8. c[q][s][l] = row
      BY <2>4, <2>5, <2>6
    <2>9. \A p \in Rank, z \in {0, 1}, m \in Lanes : p # q \/ z # s \/ m # l => c[p][z][m] = b[p][z][m]
      BY <2>4, <2>5, <2>6
    <2> QED BY <2>3, <2>7, <2>8, <2>9
  <1>2. Peer(r) \in Rank /\ Slot(r, l) \in {0, 1} /\ word[r][l] \in 1 .. Words /\ Tag(r) \in Nat \X Nat
        /\ box \in Boxes
    BY RankFacts, StoredTypes
  <1> QED BY <1>1, <1>2

(* Every step of a block is its lane's own, and keeps the types. *)
LEMMA KernelShape ==
  ASSUME TypeOK, NEW r \in Rank, NEW l \in Lanes, Kernel(r, l)
  PROVE  OwnOnly(r, l) /\ TypeOK'
  <1>0. /\ Peer(r) \in Rank /\ Peer(r) # r /\ Peer(Peer(r)) = r
        /\ \A q \in Rank : q # r => q = Peer(r) /\ Peer(q) = r
    BY RankFacts
  <1> USE DEF Places, AbortCodes
  <1>1. CASE Entry(r, l)
    <2>1. seq' \in [Rank -> [Lanes -> 0 .. Modulus - 1]] /\
          \A q \in Rank, m \in Lanes : q # r \/ m # l => seq'[q][m] = seq[q][m]
      <3>1. (seq[r][l] + 1) % Modulus \in 0 .. Modulus - 1
        BY ModulusFacts, StoredTypes
      <3>2. seq \in [Rank -> [Lanes -> 0 .. Modulus - 1]]
        BY DEF TypeOK
      <3>3. seq' = [seq EXCEPT ![r][l] = (seq[r][l] + 1) % Modulus]
        BY <1>1 DEF Entry
      <3> QED BY <3>1, <3>2, <3>3
    <2>2. at' \in [Rank -> [Lanes -> Places]] /\
          \A q \in Rank, m \in Lanes : q # r \/ m # l => at'[q][m] = at[q][m]
      BY <1>1, MoveShape DEF Entry
    <2>3. short' \in [Rank -> BOOLEAN] /\ \A q \in Rank : q # r => short'[q] = short[q]
      BY <1>1 DEF Entry, TypeOK
    <2>4. /\ UNCHANGED <<prog, run, issued, word, flag, box, abort, sticky, sum, base, host>>
          /\ at[r][l] = "entry"
      BY <1>1 DEF Entry
    <2> QED BY <2>1, <2>2, <2>3, <2>4 DEF TypeOK, OwnOnly
  <1>2. CASE Push(r, l)
    <2>1. /\ box' \in Boxes
          /\ \A q \in Rank, m \in Lanes, s \in {0, 1} : q # r \/ m # l =>
               box'[Peer(q)][s][m] = box[Peer(q)][s][m]
      <3>2. /\ box' \in Boxes
            /\ \A p \in Rank, z \in {0, 1}, m \in Lanes :
                 p # Peer(r) \/ m # l => box'[p][z][m] = box[p][z][m]
        BY <1>2, PushShape
      <3> QED BY <1>0, <3>2
    <2>2. /\ at' \in [Rank -> [Lanes -> Places]] /\ word' \in [Rank -> [Lanes -> 1 .. Words]]
          /\ \A q \in Rank, m \in Lanes : q # r \/ m # l =>
               at'[q][m] = at[q][m] /\ word'[q][m] = word[q][m]
      BY <1>2, NextWordShape DEF Push
    <2>3. /\ UNCHANGED <<prog, run, issued, seq, flag, abort, sticky, sum, short, base, host>>
          /\ at[r][l] = "push"
      BY <1>2 DEF Push
    <2>4. TypeOK'
      BY <2>1, <2>2, <2>3 DEF TypeOK, Boxes
    <2>5. OwnOnly(r, l)
      BY <2>1, <2>2, <2>3 DEF OwnOnly
    <2> QED BY <2>4, <2>5
  <1>3. CASE StoreFlag(r, l)
    <2>1. /\ flag' \in [Rank -> [Lanes -> 0 .. Modulus - 1]]
          /\ \A q \in Rank, m \in Lanes : q # r \/ m # l => flag'[Peer(q)][m] = flag[Peer(q)][m]
      <3>1. flag' = [flag EXCEPT ![Peer(r)][l] = seq[r][l]] /\ seq[r][l] \in 0 .. Modulus - 1
        BY <1>3, StoredTypes DEF StoreFlag
      <3>2. /\ flag' \in [Rank -> [Lanes -> 0 .. Modulus - 1]]
            /\ \A p \in Rank, m \in Lanes : p # Peer(r) \/ m # l => flag'[p][m] = flag[p][m]
        <4>1. ASSUME NEW p \in Rank, p = Peer(r)
              PROVE  /\ flag' \in [Rank -> [Lanes -> 0 .. Modulus - 1]]
                     /\ \A q \in Rank, m \in Lanes : q # p \/ m # l => flag'[q][m] = flag[q][m]
          BY <3>1, <4>1 DEF TypeOK
        <4> QED BY <1>0, <4>1
      <3> QED BY <1>0, <3>2
    <2>2. at' \in [Rank -> [Lanes -> Places]] /\
          \A q \in Rank, m \in Lanes : q # r \/ m # l => at'[q][m] = at[q][m]
      BY <1>3, MoveShape DEF StoreFlag
    <2>3. /\ UNCHANGED <<prog, run, issued, word, seq, box, abort, sticky, sum, short, base, host>>
          /\ at[r][l] = "flag"
      BY <1>3 DEF StoreFlag
    <2> QED BY <2>1, <2>2, <2>3 DEF TypeOK, OwnOnly
  <1>4. ASSUME Bail(r, l), UNCHANGED abort, at[r][l] # "off" PROVE OwnOnly(r, l) /\ TypeOK'
    <2>1. at' \in [Rank -> [Lanes -> Places]] /\
          \A q \in Rank, m \in Lanes : q # r \/ m # l => at'[q][m] = at[q][m]
      BY <1>4, MoveShape DEF Bail
    <2>2. /\ sticky' \in [Rank -> BOOLEAN] /\ short' \in [Rank -> BOOLEAN]
          /\ \A q \in Rank : sticky[q] => sticky'[q]
          /\ \A q \in Rank : q # r => sticky'[q] = sticky[q] /\ short'[q] = short[q]
      BY <1>4 DEF Bail, TypeOK
    <2>3. UNCHANGED <<prog, run, issued, word, seq, flag, box, sum, base, host>>
      BY <1>4 DEF Bail
    <2> QED BY <1>4, <2>1, <2>2, <2>3 DEF TypeOK, OwnOnly
  <1>5. ASSUME NEW code \in AbortCodes, NoteFailure(r, l, code), at[r][l] # "off"
        PROVE  OwnOnly(r, l) /\ TypeOK'
    <2>1. at' \in [Rank -> [Lanes -> Places]] /\
          \A q \in Rank, m \in Lanes : q # r \/ m # l => at'[q][m] = at[q][m]
      BY <1>5, MoveShape DEF NoteFailure
    <2>2. abort' \in [Rank -> AbortCodes]
      BY <1>5 DEF NoteFailure, TypeOK
    <2>3. UNCHANGED <<prog, run, issued, word, seq, flag, box, sticky, sum, short, base, host>>
      BY <1>5 DEF NoteFailure
    <2> QED BY <1>5, <2>1, <2>2, <2>3 DEF TypeOK, OwnOnly
  <1>6. ASSUME NEW to \in Places, Move(r, l, to), at[r][l] # "off",
               UNCHANGED <<prog, run, issued, word, seq, flag, box, abort, sticky, sum, short, base, host>>
        PROVE  OwnOnly(r, l) /\ TypeOK'
    <2>1. at' \in [Rank -> [Lanes -> Places]] /\
          \A q \in Rank, m \in Lanes : q # r \/ m # l => at'[q][m] = at[q][m]
      BY <1>6, MoveShape
    <2> QED BY <1>6, <2>1 DEF TypeOK, OwnOnly
  <1>7. CASE SpinReached(r, l)
    BY <1>4, <1>5, <1>6, <1>7 DEF SpinReached
  <1>8. CASE SpinMiss(r, l) \/ SlowAgain(r, l) \/ SlowLate(r, l)
    BY <1>6, <1>8 DEF SpinMiss, SlowAgain, SlowLate, Poll
  <1>9. CASE SlowAbort(r, l) \/ MarkSticky(r, l)
    BY <1>4, <1>9 DEF SlowAbort, MarkSticky
  <1>10. CASE TimeOut(r, l)
    BY <1>5, <1>10 DEF TimeOut
  <1>11. CASE Reduce(r, l)
    <2>1. sum' \in [Rank -> [Lanes -> [1 .. Words -> Nat \X Nat]]]
      <3>1. word[r][l] \in 1 .. Words /\ box[r][Slot(r, l)][l][word[r][l]] \in Nat \X Nat
        BY StoredTypes, BoxWord
      <3>2. sum' = [sum EXCEPT ![r][l][word[r][l]] = box[r][Slot(r, l)][l][word[r][l]]]
        BY <1>11 DEF Reduce
      <3> QED BY <3>1, <3>2 DEF TypeOK
    <2>2. /\ at' \in [Rank -> [Lanes -> Places]] /\ word' \in [Rank -> [Lanes -> 1 .. Words]]
          /\ \A q \in Rank, m \in Lanes : q # r \/ m # l =>
               at'[q][m] = at[q][m] /\ word'[q][m] = word[q][m]
      BY <1>11, NextWordShape DEF Reduce
    <2>3. /\ UNCHANGED <<prog, run, issued, seq, flag, box, abort, sticky, short, base, host>>
          /\ at[r][l] = "reduce"
      BY <1>11 DEF Reduce
    <2> QED BY <2>1, <2>2, <2>3 DEF TypeOK, OwnOnly
  <1> QED BY <1>1, <1>2, <1>3, <1>7, <1>8, <1>9, <1>10, <1>11 DEF Kernel

-----------------------------------------------------------------------------
(* The lockstep of the counters.                                           *)

Waits == {"spin", "slow", "late", "mark"}
LaneHolds(pushed, r, l) == Numbered(pushed, r, l) /\ Answered(pushed, r, l) /\ Delivered(pushed, r, l)

(* The counts of a lane are numbers. *)
LEMMA LaneTypes ==
  ASSUME TypeOK, NEW p \in Counts, NEW r \in Rank, NEW l \in Lanes
  PROVE  /\ p[r][l] \in Nat /\ p[r][l] <= CallsPerRun /\ CallsPerRun \in Nat
         /\ issued[r] \in Nat /\ issued[r] <= CallsPerRun /\ base \in Nat
         /\ at[r][l] \in Places
         /\ Calls(prog, l, issued[r]) \in 0 .. issued[r]
         /\ Entered(r, l) = Calls(prog, l, issued[r]) - (IF at[r][l] = "entry" THEN 1 ELSE 0)
  <1>1. CallsPerRun \in Nat
    BY SizeAssumption
  <1>2. issued[r] \in 0 .. CallsPerRun /\ base \in 0 .. Modulus - 1 /\ at[r][l] \in Places
    BY DEF TypeOK
  <1>3. p[r][l] \in 0 .. CallsPerRun
    BY DEF Counts
  <1>4. issued[r] \in Nat
    BY <1>1, <1>2
  <1>5. Calls(prog, l, issued[r]) \in 0 .. issued[r]
    BY <1>4, CallsCount
  <1> QED BY <1>1, <1>2, <1>3, <1>4, <1>5, ModulusFacts DEF Entered

(* The lanes a block does not own keep the lockstep; a peer that flags one *)
(* more call only helps.                                                   *)
LEMMA OtherLanes ==
  ASSUME TypeOK, NEW p \in Counts, NEW c \in Counts, Lockstep(p),
         NEW r \in Rank, NEW l \in Lanes, OwnOnly(r, l),
         NEW q \in Rank, NEW m \in Lanes, q # r \/ m # l,
         c[q][m] = p[q][m], c[Peer(q)][m] >= p[Peer(q)][m]
  PROVE  LaneHolds(c, q, m)'
  <1>1. Numbered(p, q, m) /\ Answered(p, q, m) /\ Delivered(p, q, m)
    BY DEF Lockstep
  <1>2. /\ prog' = prog /\ run' = run /\ issued' = issued /\ base' = base
        /\ at'[q][m] = at[q][m] /\ word'[q][m] = word[q][m] /\ seq'[q][m] = seq[q][m]
        /\ flag'[Peer(q)][m] = flag[Peer(q)][m]
        /\ \A s \in {0, 1} : box'[Peer(q)][s][m] = box[Peer(q)][s][m]
        /\ ~sticky'[q] => ~sticky[q]
    BY DEF OwnOnly
  <1>3. Entered(q, m)' = Entered(q, m) /\ Tag(q)' = Tag(q) /\ Slot(q, m)' = Slot(q, m)
    BY <1>2 DEF Entered, Tag, Slot
  <1>4. Numbered(c, q, m)'
    BY <1>1, <1>2, <1>3 DEF Numbered
  <1>5. Answered(c, q, m)'
    <2>1. /\ p[q][m] \in Nat /\ p[Peer(q)][m] \in Nat /\ c[Peer(q)][m] \in Nat
      BY LaneTypes, RankFacts
    <2> QED BY <1>1, <1>2, <2>1 DEF Answered
  <1>6. ASSUME NEW s \in {0, 1}, NEW n, HoldsCall(q, m, s, n) PROVE HoldsCall(q, m, s, n)'
    BY <1>2, <1>6 DEF HoldsCall
  <1>7. Parity(base, p[q][m]) \in {0, 1} /\ 1 - Parity(base, p[q][m]) \in {0, 1} /\ Slot(q, m) \in {0, 1}
    <2>1. p[q][m] \in Nat /\ base \in Nat
      BY LaneTypes
    <2>2. Parity(base, p[q][m]) \in {0, 1}
      BY <2>1, NextNumber
    <2> QED BY <2>2, StoredTypes
  <1>8. Delivered(c, q, m)'
    BY <1>1, <1>2, <1>3, <1>6, <1>7 DEF Delivered
  <1> QED BY <1>4, <1>5, <1>8 DEF LaneHolds

(* A block that has flagged its call keeps the lockstep wherever it goes,  *)
(* if it reduces or ends unmarked only when the peer has flagged it too.   *)
LEMMA SettledLane ==
  ASSUME TypeOK, NEW p \in Counts, Lockstep(p), NEW r \in Rank, NEW l \in Lanes, OwnOnly(r, l),
         UNCHANGED <<seq, flag, box>>,
         at[r][l] \in Waits \cup {"reduce"}, at'[r][l] \in Waits \cup {"reduce", "off"},
         at'[r][l] # "reduce" => word'[r][l] = 1,
         at'[r][l] = "reduce" \/ (at'[r][l] = "off" /\ ~sticky'[r]) => p[r][l] <= p[Peer(r)][l]
  PROVE  LaneHolds(p, r, l)'
  <1>1. Numbered(p, r, l) /\ Answered(p, r, l) /\ Delivered(p, r, l)
    BY DEF Lockstep
  <1>2. prog' = prog /\ run' = run /\ issued' = issued /\ base' = base
        /\ seq' = seq /\ flag' = flag /\ box' = box
    BY DEF OwnOnly
  <1>3. Entered(r, l)' = Entered(r, l) /\ Entered(r, l) = p[r][l]
    BY <1>1, <1>2 DEF Entered, Numbered, Waits
  <1>4. Numbered(p, r, l)'
    BY <1>1, <1>2, <1>3, LaneTypes DEF Numbered, Waits, Filling
  <1>5. Answered(p, r, l)'
    BY <1>1, <1>2 DEF Answered, Waits, Filling
  <1>6. Delivered(p, r, l)'
    BY <1>1, <1>2 DEF Delivered, HoldsCall, Waits, Filling
  <1> QED BY <1>4, <1>5, <1>6 DEF LaneHolds

(* A block that enters a call counts it. *)
LEMMA EntryLane ==
  ASSUME TypeOK, NEW p \in Counts, Lockstep(p), NEW r \in Rank, NEW l \in Lanes, OwnOnly(r, l),
         Entry(r, l)
  PROVE  LaneHolds(p, r, l)'
  <1>1. Numbered(p, r, l) /\ Answered(p, r, l) /\ Delivered(p, r, l)
    BY DEF Lockstep
  <1>2. /\ prog' = prog /\ run' = run /\ issued' = issued /\ base' = base /\ flag' = flag /\ box' = box
        /\ sticky' = sticky /\ word' = word /\ at[r][l] = "entry"
        /\ seq' = [seq EXCEPT ![r][l] = (@ + 1) % Modulus]
    BY DEF Entry
  <1>3. IF sticky[r] THEN at'[r][l] = "off" ELSE at'[r][l] = "push"
    BY MoveShape DEF Entry, Places
  <1>4. Entered(r, l) \in Nat /\ Entered(r, l)' = Entered(r, l) + 1 /\ p[r][l] \in Nat
        /\ p[r][l] <= Entered(r, l) /\ base \in Nat
    <2>1. p[r][l] <= Entered(r, l)
      BY <1>1 DEF Numbered
    <2>2. p[r][l] \in Nat /\ base \in Nat
      BY LaneTypes
    <2>3. Calls(prog, l, issued[r]) \in Int /\ Entered(r, l) = Calls(prog, l, issued[r]) - 1
      BY <1>2, LaneTypes
    <2>4. Entered(r, l)' = Calls(prog, l, issued[r])
      <3>1. at'[r][l] # "entry"
        BY <1>3
      <3> QED BY <1>2, <2>3, <3>1 DEF Entered
    <2> QED BY <2>1, <2>2, <2>3, <2>4
  <1>5. seq'[r][l] = Num(base, Entered(r, l) + 1)
    <2>1. seq[r][l] = Num(base, Entered(r, l)) /\ seq'[r][l] = (seq[r][l] + 1) % Modulus
      BY <1>1, <1>2 DEF Numbered, TypeOK
    <2> QED BY <1>4, <2>1, NextNumber
  <1>6. Numbered(p, r, l)'
    <2>1. at'[r][l] \in Filling => Entered(r, l)' = p[r][l] + 1
      <3>1. ~sticky[r] => Entered(r, l) = p[r][l]
        BY <1>1, <1>2 DEF Numbered
      <3> QED BY <1>3, <1>4, <3>1 DEF Filling
    <2>2. /\ flag[Peer(r)][l] = Num(base, p[r][l]) /\ l \in prog[issued[r]] /\ issued[r] > 0
          /\ word[r][l] = 1
      BY <1>1, <1>2 DEF Numbered
    <2>3. p[r][l] <= Entered(r, l) + 1
      BY <1>4
    <2> QED BY <1>2, <1>3, <1>4, <1>5, <2>1, <2>2, <2>3 DEF Numbered
  <1>7. Answered(p, r, l)'
    BY <1>1, <1>2, <1>3 DEF Answered, Filling
  <1>8. Delivered(p, r, l)'
    <2>1. word'[r][l] = 1 /\ \A w \in 1 .. Words : ~(w < 1)
      BY <1>1, <1>2, SizeAssumption DEF Numbered
    <2> QED BY <1>1, <1>2, <1>3, <2>1 DEF Delivered, HoldsCall, Filling
  <1> QED BY <1>6, <1>7, <1>8 DEF LaneHolds

(* A block that pushes fills the slot its last call is not in. *)
LEMMA PushLane ==
  ASSUME TypeOK, NEW p \in Counts, Lockstep(p), NEW r \in Rank, NEW l \in Lanes, OwnOnly(r, l),
         Push(r, l)
  PROVE  LaneHolds(p, r, l)'
  <1>1. Numbered(p, r, l) /\ Answered(p, r, l) /\ Delivered(p, r, l)
    BY DEF Lockstep
  <1>2. /\ prog' = prog /\ run' = run /\ issued' = issued /\ base' = base /\ flag' = flag /\ seq' = seq
        /\ sticky' = sticky /\ at[r][l] = "push" /\ NextWord(r, l, "flag")
    BY DEF Push
  <1>3. \/ word[r][l] < Words /\ word'[r][l] = word[r][l] + 1 /\ at'[r][l] = "push"
        \/ word[r][l] = Words /\ word'[r][l] = 1 /\ at'[r][l] = "flag"
    BY <1>2, NextWordShape DEF Places
  <1>4. Entered(r, l)' = Entered(r, l) /\ Tag(r)' = Tag(r) /\ Slot(r, l)' = Slot(r, l)
    BY <1>2, <1>3 DEF Entered, Tag, Slot
  <1>5. /\ p[r][l] \in Nat /\ base \in Nat
        /\ Slot(r, l) = 1 - Parity(base, p[r][l])
        /\ Parity(base, p[r][l]) \in {0, 1} /\ Parity(base, p[r][l]) # Slot(r, l)
    <2>1. p[r][l] \in Nat /\ base \in Nat
      BY LaneTypes
    <2>2. seq[r][l] = Num(base, Entered(r, l)) /\ Entered(r, l) = p[r][l] + 1
      BY <1>1, <1>2 DEF Numbered, Filling
    <2>3. Slot(r, l) = Parity(base, p[r][l] + 1)
      BY <2>2 DEF Slot, Parity
    <2>4. /\ Parity(base, p[r][l]) \in {0, 1}
          /\ Parity(base, p[r][l] + 1) = 1 - Parity(base, p[r][l])
      BY <2>1, NextNumber
    <2> QED BY <2>1, <2>3, <2>4
  <1>6. Numbered(p, r, l)'
    BY <1>1, <1>2, <1>3, <1>4 DEF Numbered, Filling
  <1>7. Answered(p, r, l)'
    BY <1>1, <1>2, <1>3 DEF Answered, Filling
  <1>8. Delivered(p, r, l)'
    <2>1. HoldsCall(r, l, Parity(base, p[r][l]), p[r][l])'
      <3>1. box'[Peer(r)][Parity(base, p[r][l])][l] = box[Peer(r)][Parity(base, p[r][l])][l]
        BY <1>5, PushShape, RankFacts
      <3>2. HoldsCall(r, l, Parity(base, p[r][l]), p[r][l])
        BY <1>1 DEF Delivered
      <3> QED BY <1>2, <3>1, <3>2 DEF HoldsCall
    <2>2. ASSUME NEW w \in 1 .. Words, at'[r][l] = "flag" \/ w < word'[r][l]
          PROVE  box'[Peer(r)][Slot(r, l)][l][w] = Tag(r)
      <3>1. CASE w = word[r][l]
        BY <3>1, PushShape
      <3>2. CASE w # word[r][l]
        <4>1. w < word[r][l]
          <5>1. word[r][l] \in 1 .. Words /\ Words \in Nat
            BY StoredTypes, SizeAssumption
          <5> QED BY <1>3, <2>2, <3>2, <5>1
        <4>2. box[Peer(r)][Slot(r, l)][l][w] = Tag(r)
          BY <1>1, <1>2, <4>1 DEF Delivered, Filling
        <4>3. box'[Peer(r)][Slot(r, l)][l][w] = box[Peer(r)][Slot(r, l)][l][w]
          BY <3>2, PushShape
        <4> QED BY <4>2, <4>3
      <3> QED BY <3>1, <3>2
    <2> QED BY <1>2, <1>3, <1>4, <2>1, <2>2 DEF Delivered, Filling
  <1> QED BY <1>6, <1>7, <1>8 DEF LaneHolds

(* A flag tells the peer of one more whole call. *)
LEMMA FlagLane ==
  ASSUME TypeOK, NEW p \in Counts, Lockstep(p), NEW r \in Rank, NEW l \in Lanes, OwnOnly(r, l),
         StoreFlag(r, l)
  PROVE  \E c \in Counts :
           /\ LaneHolds(c, r, l)'
           /\ \A q \in Rank, m \in Lanes : q # r \/ m # l =>
                c[q][m] = p[q][m] /\ c[Peer(q)][m] >= p[Peer(q)][m]
  <1> DEFINE c == [p EXCEPT ![r] = [p[r] EXCEPT ![l] = p[r][l] + 1]]
  <1>1. Numbered(p, r, l) /\ Answered(p, r, l) /\ Delivered(p, r, l)
    BY DEF Lockstep
  <1>2. /\ prog' = prog /\ run' = run /\ issued' = issued /\ base' = base /\ seq' = seq
        /\ sticky' = sticky /\ at[r][l] = "flag" /\ word' = word /\ box' = box
        /\ flag' = [flag EXCEPT ![Peer(r)][l] = seq[r][l]]
    BY DEF StoreFlag
  <1>3. at'[r][l] = "spin" /\ flag'[Peer(r)][l] = seq[r][l]
    <2>1. at'[r][l] = "spin"
      BY MoveShape DEF StoreFlag, Places
    <2>2. Peer(r) \in Rank
      BY RankFacts
    <2> QED BY <1>2, <2>1, <2>2 DEF TypeOK
  <1>4. Entered(r, l)' = Entered(r, l) /\ Entered(r, l) = p[r][l] + 1 /\ p[r][l] \in Nat /\ base \in Nat
        /\ p[r][l] + 1 = Calls(prog, l, issued[r]) /\ p[r][l] + 1 \in 0 .. CallsPerRun
        /\ issued[r] \in 1 .. CallsPerRun /\ l \in prog[issued[r]]
    <2>1. Entered(r, l) = p[r][l] + 1 /\ issued[r] > 0 /\ l \in prog[issued[r]]
      BY <1>1, <1>2 DEF Numbered, Filling
    <2>2. Entered(r, l) = Calls(prog, l, issued[r])
      BY <1>2, LaneTypes
    <2>3. Entered(r, l)' = Entered(r, l)
      BY <1>2, <1>3 DEF Entered
    <2> QED BY <2>1, <2>2, <2>3, LaneTypes
  <1>5. /\ c \in Counts /\ c[r][l] = p[r][l] + 1
        /\ \A q \in Rank, m \in Lanes : q # r \/ m # l => c[q][m] = p[q][m]
    BY <1>4 DEF Counts
  <1> HIDE DEF c
  <1>6. c[Peer(r)][l] = p[Peer(r)][l] /\ c[Peer(r)][l] \in Nat
    BY <1>5, RankFacts, LaneTypes
  <1>7. Numbered(c, r, l)'
    <2>1. seq[r][l] = Num(base, Entered(r, l)) /\ word[r][l] = 1
      BY <1>1, <1>2 DEF Numbered
    <2> QED BY <1>2, <1>3, <1>4, <1>5, <2>1 DEF Numbered, Filling
  <1>8. Answered(c, r, l)'
    <2>1. p[r][l] <= p[Peer(r)][l]
      BY <1>1, <1>2 DEF Answered, Filling
    <2> QED BY <1>3, <1>4, <1>5, <1>6, <2>1 DEF Answered, Filling
  <1>9. Delivered(c, r, l)'
    <2>1. Slot(r, l) = Parity(base, p[r][l] + 1)
      BY <1>1, <1>4 DEF Numbered, Slot, Parity
    <2>2. HoldsCall(r, l, Parity(base, p[r][l] + 1), p[r][l] + 1)
      <3>1. SUFFICES ASSUME NEW k \in 1 .. CallsPerRun, NEW w \in 1 .. Words,
                            l \in prog[k], Calls(prog, l, k) = p[r][l] + 1
                     PROVE  box[Peer(r)][Parity(base, p[r][l] + 1)][l][w] = <<run, k>>
        BY DEF HoldsCall
      <3>2. k = issued[r]
        <4>1. k \in Nat \ {0} /\ issued[r] \in Nat \ {0}
          BY <1>4, SizeAssumption
        <4> QED BY <1>4, <3>1, <4>1, CallsUnique
      <3>3. box[Peer(r)][Slot(r, l)][l][w] = Tag(r)
        BY <1>1, <1>2 DEF Delivered, Filling
      <3> QED BY <2>1, <3>2, <3>3 DEF Tag
    <2>3. HoldsCall(r, l, 1 - Parity(base, p[r][l] + 1), p[r][l])
      <3>1. HoldsCall(r, l, Parity(base, p[r][l]), p[r][l])
        BY <1>1 DEF Delivered
      <3>2. 1 - Parity(base, p[r][l] + 1) = Parity(base, p[r][l])
        <4>1. /\ Parity(base, p[r][l]) \in {0, 1}
              /\ Parity(base, p[r][l] + 1) = 1 - Parity(base, p[r][l])
          BY <1>4, NextNumber
        <4> QED BY <4>1
      <3> QED BY <3>1, <3>2
    <2>4. (p[r][l] + 1) - 1 = p[r][l]
      BY <1>4
    <2>5. ASSUME NEW s, NEW n, HoldsCall(r, l, s, n) PROVE HoldsCall(r, l, s, n)'
      BY <1>2, <2>5 DEF HoldsCall
    <2> QED BY <1>2, <1>3, <1>5, <2>2, <2>3, <2>4, <2>5 DEF Delivered, Filling
  <1>10. ASSUME NEW q \in Rank, NEW m \in Lanes PROVE c[q][m] >= p[q][m]
    <2>1. p[q][m] \in Nat /\ c[q][m] \in Nat
      BY <1>5, LaneTypes
    <2> QED BY <1>4, <1>5, <2>1
  <1> QED BY <1>5, <1>7, <1>8, <1>9, <1>10, RankFacts DEF LaneHolds

(* A wait that sees its peer's flag finds it one call ahead at most: the   *)
(* kernel's protocol check never fires.                                    *)
LEMMA ReachedIsReduced ==
  ASSUME TypeOK, NEW p \in Counts, Lockstep(p), NEW r \in Rank, NEW l \in Lanes, SpinReached(r, l)
  PROVE  /\ p[r][l] <= p[Peer(r)][l]
         /\ at[r][l] = "spin" /\ Move(r, l, "reduce")
         /\ UNCHANGED <<prog, run, issued, word, seq, flag, box, abort, sticky, sum, short, base, host>>
  <1> DEFINE P == Peer(r)
             n == p[r][l]
             k == p[P][l]
  <1>0. P \in Rank /\ Peer(P) = r
    BY RankFacts
  <1>1. at[r][l] = "spin" /\ AtLeast(flag[r][l], seq[r][l])
    BY DEF SpinReached
  <1>2. n \in Nat /\ k \in Nat /\ base \in Nat
    BY <1>0, LaneTypes
  <1>3. n <= k + 1 /\ k <= n + 1
    <2>1. Answered(p, r, l) /\ Answered(p, P, l)
      BY <1>0 DEF Lockstep
    <2> QED BY <1>0, <2>1 DEF Answered
  <1>4. seq[r][l] = Num(base, n) /\ flag[r][l] = Num(base, k)
    <2>1. Numbered(p, r, l) /\ Numbered(p, P, l)
      BY <1>0 DEF Lockstep
    <2> QED BY <1>0, <1>1, <2>1 DEF Numbered
  <1> HIDE DEF n, k
  <1>5. n <= k /\ Offset(flag[r][l], seq[r][l]) < 2
    <2>1. n = k + 1 \/ n = k \/ k = n + 1
      BY <1>2, <1>3
    <2>2. n # k + 1
      BY <1>1, <1>2, <1>4, NearOffsets
    <2>3. Offset(flag[r][l], seq[r][l]) < 2
      BY <1>2, <1>4, <2>1, <2>2, NearOffsets
    <2> QED BY <1>2, <2>1, <2>2, <2>3
  <1>6. /\ Move(r, l, "reduce")
        /\ UNCHANGED <<prog, run, issued, word, seq, flag, box, abort, sticky, sum, short, base, host>>
    BY <1>5 DEF SpinReached
  <1> QED BY <1>1, <1>5, <1>6 DEF n, k

(* The steps of a block that has flagged its call. *)
LEMMA SettledStep ==
  ASSUME TypeOK, NEW p \in Counts, Lockstep(p), NEW r \in Rank, NEW l \in Lanes, Kernel(r, l),
         ~Entry(r, l), ~Push(r, l), ~StoreFlag(r, l)
  PROVE  LaneHolds(p, r, l)'
  <1>0. OwnOnly(r, l)
    BY KernelShape
  <1>1. Numbered(p, r, l) /\ Answered(p, r, l)
    BY DEF Lockstep
  <1>2. ASSUME NEW from \in Waits, NEW to \in Waits, at[r][l] = from, Move(r, l, to), word' = word,
               UNCHANGED <<seq, flag, box>>
        PROVE  LaneHolds(p, r, l)'
    <2>1. at'[r][l] = to
      BY <1>2, MoveShape DEF Waits, Places
    <2>2. word'[r][l] = 1
      BY <1>1, <1>2 DEF Numbered, Waits
    <2> QED BY <1>0, <1>2, <2>1, <2>2, SettledLane DEF Waits
  <1>3. ASSUME at[r][l] \in Waits, Bail(r, l) PROVE LaneHolds(p, r, l)'
    <2>1. at'[r][l] = "off" /\ sticky'[r]
      <3>1. at'[r][l] = "off"
        BY <1>3, MoveShape DEF Bail, Places
      <3>2. sticky'[r]
        BY <1>3 DEF Bail, TypeOK
      <3> QED BY <3>1, <3>2
    <2>2. word'[r][l] = 1 /\ UNCHANGED <<seq, flag, box>>
      BY <1>1, <1>3 DEF Numbered, Waits, Bail
    <2> QED BY <1>0, <1>3, <2>1, <2>2, SettledLane DEF Waits
  <1>4. CASE SpinReached(r, l)
    <2>1. /\ p[r][l] <= p[Peer(r)][l] /\ at[r][l] = "spin" /\ at'[r][l] = "reduce"
          /\ UNCHANGED <<seq, flag, box>>
      BY <1>4, ReachedIsReduced, MoveShape DEF Places
    <2> QED BY <1>0, <2>1, SettledLane DEF Waits
  <1>5. CASE SpinMiss(r, l) \/ SlowAgain(r, l) \/ SlowLate(r, l)
    BY <1>2, <1>5 DEF SpinMiss, SlowAgain, SlowLate, Poll, Waits
  <1>6. CASE SlowAbort(r, l) \/ MarkSticky(r, l)
    BY <1>3, <1>6 DEF SlowAbort, MarkSticky, Waits
  <1>7. CASE TimeOut(r, l)
    BY <1>2, <1>7 DEF TimeOut, NoteFailure, Waits
  <1>8. CASE Reduce(r, l)
    <2>1. p[r][l] <= p[Peer(r)][l] /\ at[r][l] = "reduce" /\ UNCHANGED <<seq, flag, box>>
      BY <1>1, <1>8 DEF Answered, Reduce
    <2>2. \/ at' = at
          \/ word'[r][l] = 1 /\ at'[r][l] = "off"
      BY <1>8, NextWordShape DEF Reduce, Places
    <2> QED BY <1>0, <2>1, <2>2, SettledLane DEF Waits
  <1> QED BY <1>4, <1>5, <1>6, <1>7, <1>8 DEF Kernel

(* Every step of a block keeps the lockstep. *)
LEMMA KernelLockstep ==
  ASSUME TypeOK, NEW p \in Counts, Lockstep(p), NEW r \in Rank, NEW l \in Lanes, Kernel(r, l)
  PROVE  \E c \in Counts : Lockstep(c)'
  <1>0. OwnOnly(r, l)
    BY KernelShape
  <1>1. ASSUME NEW c \in Counts, LaneHolds(c, r, l)',
               \A q \in Rank, m \in Lanes : q # r \/ m # l =>
                 c[q][m] = p[q][m] /\ c[Peer(q)][m] >= p[Peer(q)][m]
        PROVE  Lockstep(c)'
    <2>1. ASSUME NEW q \in Rank, NEW m \in Lanes PROVE LaneHolds(c, q, m)'
      <3>1. CASE q = r /\ m = l
        BY <1>1, <3>1
      <3>2. CASE q # r \/ m # l
        BY <1>0, <1>1, <3>2, OtherLanes
      <3> QED BY <3>1, <3>2
    <2> QED BY <2>1 DEF Lockstep, LaneHolds
  <1>2. \A q \in Rank, m \in Lanes : p[Peer(q)][m] >= p[Peer(q)][m]
    BY RankFacts, LaneTypes
  <1>3. CASE StoreFlag(r, l)
    BY <1>0, <1>1, <1>3, FlagLane
  <1>4. CASE ~StoreFlag(r, l)
    <2>1. LaneHolds(p, r, l)'
      BY <1>0, <1>4, EntryLane, PushLane, SettledStep
    <2> QED BY <1>1, <1>2, <2>1
  <1> QED BY <1>3, <1>4

(* The slot a block reduces from holds the peer's word of the same call:   *)
(* the peer's last call, or the one before it if the peer went on to a     *)
(* next call, whose push is then over.                                     *)
LEMMA ReducedWord ==
  ASSUME TypeOK, NEW p \in Counts, Lockstep(p), NEW r \in Rank, NEW l \in Lanes, at[r][l] = "reduce",
         NEW w \in 1 .. Words
  PROVE  box[r][Slot(r, l)][l][w] = Tag(r)
  <1> DEFINE P == Peer(r)
             n == p[r][l]
             k == p[P][l]
  <1>0. P \in Rank /\ Peer(P) = r
    BY RankFacts
  <1>1. n \in Nat /\ k \in Nat /\ base \in Nat /\ issued[r] \in Nat /\ issued[r] <= CallsPerRun
        /\ CallsPerRun \in Nat
    BY <1>0, LaneTypes
  <1>2. Numbered(p, r, l) /\ Answered(p, r, l) /\ Answered(p, P, l) /\ Delivered(p, P, l)
    BY <1>0 DEF Lockstep
  <1>3. n <= k /\ k <= n + 1 /\ (at[P][l] \in Filling => k <= n)
    BY <1>0, <1>2 DEF Answered
  <1>4. /\ seq[r][l] = Num(base, n) /\ issued[r] > 0 /\ l \in prog[issued[r]]
        /\ Calls(prog, l, issued[r]) = n
    <2>1. /\ seq[r][l] = Num(base, n) /\ issued[r] > 0 /\ l \in prog[issued[r]] /\ Entered(r, l) = n
      BY <1>2 DEF Numbered
    <2>2. Entered(r, l) = Calls(prog, l, issued[r])
      BY <1>1, LaneTypes
    <2> QED BY <2>1, <2>2
  <1>5. Slot(r, l) = Parity(base, n)
    BY <1>4 DEF Slot, Parity
  <1>6. HoldsCall(P, l, Parity(base, n), n)
    <2>1. CASE k = n
      BY <1>2, <2>1 DEF Delivered
    <2>2. CASE k = n + 1
      <3>1. at[P][l] \notin Filling
        BY <1>1, <1>3, <2>2
      <3>2. HoldsCall(P, l, 1 - Parity(base, k), k - 1)
        BY <1>2, <3>1 DEF Delivered
      <3>3. Parity(base, n) \in {0, 1} /\ Parity(base, n + 1) = 1 - Parity(base, n)
        BY <1>1, NextNumber
      <3> HIDE DEF n, k
      <3>4. 1 - Parity(base, k) = Parity(base, n) /\ k - 1 = n
        BY <1>1, <2>2, <3>3
      <3> QED BY <3>2, <3>4
    <2> HIDE DEF n, k
    <2>3. k = n \/ k = n + 1
      BY <1>1, <1>3
    <2> QED BY <2>1, <2>2, <2>3
  <1> HIDE DEF n, k
  <1>7. issued[r] \in 1 .. CallsPerRun
    BY <1>1, <1>4
  <1>8. box[r][Parity(base, n)][l][w] = <<run, issued[r]>>
    BY <1>0, <1>4, <1>6, <1>7 DEF HoldsCall
  <1> QED BY <1>5, <1>8 DEF Tag

(* A block's step adds the peer's word of the same call, or nothing. *)
LEMMA KernelExact ==
  ASSUME TypeOK, NEW p \in Counts, Lockstep(p), NEW r \in Rank, NEW l \in Lanes, Kernel(r, l),
         ReduceIsExact
  PROVE  ReduceIsExact'
  <1>1. UNCHANGED <<run, issued>>
    BY KernelShape DEF OwnOnly
  <1>2. \A q \in Rank : Tag(q)' = Tag(q)
    BY <1>1 DEF Tag
  <1>3. CASE sum' = sum
    BY <1>2, <1>3 DEF ReduceIsExact
  <1>4. CASE Reduce(r, l)
    <2>1. /\ sum' = [sum EXCEPT ![r][l][word[r][l]] = box[r][Slot(r, l)][l][word[r][l]]]
          /\ box[r][Slot(r, l)][l][word[r][l]] = Tag(r)
      <3>1. at[r][l] = "reduce" /\ word[r][l] \in 1 .. Words
        BY <1>4, StoredTypes DEF Reduce
      <3> QED BY <1>4, <3>1, ReducedWord DEF Reduce
    <2>2. ASSUME NEW q \in Rank, NEW m \in Lanes, NEW w \in 1 .. Words
          PROVE  sum'[q][m][w] = sum[q][m][w] \/ (q = r /\ sum'[q][m][w] = Tag(r))
      <3>1. sum \in [Rank -> [Lanes -> [1 .. Words -> Nat \X Nat]]]
        BY DEF TypeOK
      <3>2. sum' = [sum EXCEPT ![r][l][word[r][l]] = Tag(r)]
        BY <2>1
      <3> QED BY <3>1, <3>2
    <2> QED BY <1>2, <2>2 DEF ReduceIsExact
  <1>5. sum' = sum \/ Reduce(r, l)
    BY DEF Kernel, Entry, Push, StoreFlag, SpinReached, SpinMiss, SlowAbort, SlowAgain, SlowLate, TimeOut,
           MarkSticky, Poll, NoteFailure, Bail
  <1> QED BY <1>3, <1>4, <1>5

(* What a block tells the hosts: it notes nothing but a timeout, and it    *)
(* goes short or sticky only once an ABORT word is set.                    *)
LEMMA KernelReport ==
  ASSUME TypeOK, NEW p \in Counts, Lockstep(p), NEW r \in Rank, NEW l \in Lanes, Kernel(r, l),
         Reported
  PROVE  /\ abort' = abort \/ abort' = [abort EXCEPT ![r] = "timeout"]
         /\ AnyAbort \/ (UNCHANGED <<sticky, short>>)
         /\ at'[r][l] = "mark" => abort' = [abort EXCEPT ![r] = "timeout"]
  <1> USE DEF Places
  <1>0. at[r][l] = "mark" \/ sticky[r] => AnyAbort
    BY DEF Reported
  <1>1. CASE Entry(r, l)
    BY <1>0, <1>1, MoveShape DEF Entry
  <1>2. CASE Push(r, l)
    BY <1>2, NextWordShape DEF Push
  <1>3. CASE StoreFlag(r, l)
    BY <1>3, MoveShape DEF StoreFlag
  <1>4. CASE SpinReached(r, l)
    BY <1>4, ReachedIsReduced, MoveShape
  <1>5. CASE SpinMiss(r, l) \/ SlowAgain(r, l) \/ SlowLate(r, l)
    BY <1>5, MoveShape DEF SpinMiss, SlowAgain, SlowLate, Poll
  <1>6. CASE SlowAbort(r, l) \/ MarkSticky(r, l)
    BY <1>0, <1>6, MoveShape DEF SlowAbort, MarkSticky, Bail
  <1>7. CASE TimeOut(r, l)
    BY <1>7 DEF TimeOut, NoteFailure
  <1>8. CASE Reduce(r, l)
    BY <1>8, NextWordShape DEF Reduce
  <1> QED BY <1>1, <1>2, <1>3, <1>4, <1>5, <1>6, <1>7, <1>8 DEF Kernel

(* What a kernel that gave up reports. *)
LEMMA KernelReported ==
  ASSUME TypeOK, NEW p \in Counts, Lockstep(p), NEW r \in Rank, NEW l \in Lanes, Kernel(r, l),
         Reported, NoProtocolViolation
  PROVE  Reported' /\ NoProtocolViolation'
  <1>1. /\ OwnOnly(r, l)
        /\ abort' = abort \/ abort' = [abort EXCEPT ![r] = "timeout"]
        /\ AnyAbort \/ (UNCHANGED <<sticky, short>>)
        /\ at'[r][l] = "mark" => abort' = [abort EXCEPT ![r] = "timeout"]
    BY KernelShape, KernelReport
  <1>2. abort' = [abort EXCEPT ![r] = "timeout"] => abort'[r] = "timeout" /\ AnyAbort'
    BY DEF TypeOK, AnyAbort
  <1>3. AnyAbort => AnyAbort'
    BY <1>1, <1>2 DEF AnyAbort
  <1>4. NoProtocolViolation'
    BY <1>1 DEF NoProtocolViolation, TypeOK
  <1>5. \A q \in Rank : sticky'[q] \/ short'[q] => AnyAbort'
    BY <1>1, <1>3 DEF Reported
  <1>6. ASSUME NEW q \in Rank, NEW m \in Lanes, at'[q][m] = "mark" PROVE AnyAbort'
    <2>1. CASE q = r /\ m = l
      BY <1>1, <1>2, <1>6, <2>1
    <2>2. CASE q # r \/ m # l
      <3>1. at[q][m] = "mark"
        BY <1>1, <1>6, <2>2 DEF OwnOnly
      <3> QED BY <1>3, <3>1 DEF Reported
    <2> QED BY <2>1, <2>2
  <1>7. ASSUME NEW q \in Rank, host'[q] = "ok" PROVE (issued[q] = CallsPerRun /\ StreamIdle(q) /\ ~short[q])'
    <2>1. host' = host /\ issued' = issued /\ at[r][l] # "off"
      BY <1>1 DEF OwnOnly
    <2>2. issued[q] = CallsPerRun /\ StreamIdle(q) /\ ~short[q]
      BY <1>7, <2>1 DEF Reported
    <2>3. q # r
      BY <2>1, <2>2 DEF StreamIdle
    <2>4. short'[q] = short[q] /\ \A m \in Lanes : at'[q][m] = at[q][m]
      BY <1>1, <2>3 DEF OwnOnly
    <2> QED BY <2>1, <2>2, <2>4 DEF StreamIdle
  <1> QED BY <1>4, <1>5, <1>6, <1>7 DEF Reported

-----------------------------------------------------------------------------
(* The host's steps.                                                       *)

(* A call of a lane is at least its first one. *)
LEMMA CallsPositive ==
  ASSUME NEW p, NEW l, NEW k \in Nat \ {0}, l \in p[k]
  PROVE  Calls(p, l, k) >= 1
  <1>1. k - 1 \in Nat /\ (k - 1) + 1 = k
    OBVIOUS
  <1>2. /\ Calls(p, l, k - 1) \in 0 .. k - 1
        /\ Calls(p, l, (k - 1) + 1) = Calls(p, l, k - 1) + (IF l \in p[(k - 1) + 1] THEN 1 ELSE 0)
    BY <1>1, CallsCount
  <1> QED BY <1>1, <1>2

(* A launch starts the next call's blocks, with the numbers unchanged. *)
LEMMA LaunchStep ==
  ASSUME IInv, NEW r \in Rank, Launch(r)
  PROVE  IInv'
  <1>1. PICK p \in Counts : Lockstep(p)
    BY DEF IInv
  <1>2. TypeOK /\ Reported /\ ReduceIsExact /\ NoProtocolViolation
    BY DEF IInv
  <1>3. /\ \A l \in Lanes : at[r][l] = "off"
        /\ issued[r] < CallsPerRun
        /\ issued' = [issued EXCEPT ![r] = @ + 1]
        /\ at' = [at EXCEPT ![r] = [l \in Lanes |-> IF l \in prog[issued[r] + 1] THEN "entry" ELSE "off"]]
        /\ sum' = [sum EXCEPT ![r] = [l \in Lanes |-> [w \in 1 .. Words |-> NoWord]]]
        /\ UNCHANGED <<prog, run, word, seq, flag, box, abort, sticky, short, base, host>>
    BY DEF Launch, StreamIdle
  <1>4. CallsPerRun \in Nat /\ issued[r] \in 0 .. CallsPerRun /\ issued[r] \in Nat
        /\ issued[r] + 1 \in 0 .. CallsPerRun
    <2>1. CallsPerRun \in Nat /\ issued[r] \in 0 .. CallsPerRun
      BY <1>2, SizeAssumption DEF TypeOK
    <2> QED BY <1>3, <2>1
  <1>5. /\ issued'[r] = issued[r] + 1
        /\ \A q \in Rank : q # r => issued'[q] = issued[q]
        /\ \A l \in Lanes : at'[r][l] = IF l \in prog[issued[r] + 1] THEN "entry" ELSE "off"
        /\ \A q \in Rank, l \in Lanes : q # r => at'[q][l] = at[q][l]
        /\ \A l \in Lanes, w \in 1 .. Words : sum'[r][l][w] = NoWord
        /\ \A q \in Rank : q # r => sum'[q] = sum[q]
    BY <1>2, <1>3 DEF TypeOK
  <1>6. TypeOK'
    <2>1. issued' \in [Rank -> 0 .. CallsPerRun]
      BY <1>2, <1>3, <1>4 DEF TypeOK
    <2>2. at' \in [Rank -> [Lanes -> Places]]
      BY <1>2, <1>3 DEF TypeOK, Places
    <2>3. sum' \in [Rank -> [Lanes -> [1 .. Words -> Nat \X Nat]]]
      <3>1. NoWord \in Nat \X Nat
        BY DEF NoWord
      <3> QED BY <1>2, <1>3, <3>1 DEF TypeOK
    <2> QED BY <1>2, <1>3, <2>1, <2>2, <2>3 DEF TypeOK
  <1>7. ReduceIsExact'
    <2>1. ASSUME NEW q \in Rank, q # r, NEW l \in Lanes, NEW w \in 1 .. Words
          PROVE  sum'[q][l][w] \in {NoWord, Tag(q)'}
      <3>1. sum[q][l][w] \in {NoWord, Tag(q)}
        BY <1>2 DEF ReduceIsExact
      <3>2. Tag(q)' = Tag(q) /\ sum'[q] = sum[q]
        BY <1>3, <1>5, <2>1 DEF Tag
      <3> QED BY <3>1, <3>2
    <2> QED BY <1>5, <2>1 DEF ReduceIsExact
  <1>8. NoProtocolViolation'
    BY <1>2, <1>3 DEF NoProtocolViolation
  <1>9. Reported'
    <2>1. AnyAbort' <=> AnyAbort
      BY <1>3 DEF AnyAbort
    <2>2. \A q \in Rank, l \in Lanes : at'[q][l] = "mark" => at[q][l] = "mark"
      BY <1>5
    <2>3. ASSUME NEW q \in Rank, host[q] = "ok"
          PROVE  issued'[q] = CallsPerRun /\ (\A l \in Lanes : at'[q][l] = "off") /\ ~short[q]
      <3>1. issued[q] = CallsPerRun /\ (\A l \in Lanes : at[q][l] = "off") /\ ~short[q]
        BY <1>2, <2>3 DEF Reported, StreamIdle
      <3>2. q # r
        BY <1>3, <1>4, <3>1
      <3> QED BY <1>5, <3>1, <3>2
    <2> QED BY <1>2, <1>3, <2>1, <2>2, <2>3 DEF Reported, StreamIdle
  <1>10. Lockstep(p)'
    <2>1. ASSUME NEW q \in Rank, NEW l \in Lanes PROVE LaneHolds(p, q, l)'
      <3>1. Numbered(p, q, l) /\ Answered(p, q, l) /\ Delivered(p, q, l)
        BY <1>1 DEF Lockstep
      <3>2. CASE q # r
        <4>1. at'[q][l] = at[q][l] /\ issued'[q] = issued[q]
          BY <1>5, <3>2
        <4>2. Entered(q, l)' = Entered(q, l) /\ Slot(q, l)' = Slot(q, l) /\ Tag(q)' = Tag(q)
          BY <1>3, <4>1 DEF Entered, Slot, Tag
        <4>3. Numbered(p, q, l)'
          BY <1>3, <3>1, <4>1, <4>2 DEF Numbered
        <4>4. Answered(p, q, l)'
          BY <1>3, <3>1, <4>1 DEF Answered
        <4>5. Delivered(p, q, l)'
          BY <1>3, <3>1, <4>1, <4>2 DEF Delivered, HoldsCall
        <4> QED BY <4>3, <4>4, <4>5 DEF LaneHolds
      <3>3. CASE q = r
        <4>1. /\ at[r][l] = "off" /\ at'[r][l] \in {"off", "entry"}
              /\ at'[r][l] = "entry" <=> l \in prog[issued[r] + 1]
          BY <1>3, <1>5
        <4>2. Entered(r, l)' = Entered(r, l)
          <5>1. /\ Calls(prog, l, issued[r]) \in 0 .. issued[r]
                /\ Calls(prog, l, issued[r] + 1)
                     = Calls(prog, l, issued[r]) + (IF l \in prog[issued[r] + 1] THEN 1 ELSE 0)
            BY <1>4, CallsCount
          <5>2. Entered(r, l) = Calls(prog, l, issued[r])
            BY <1>2, <4>1, <1>1, LaneTypes
          <5>3. Entered(r, l)' = Calls(prog, l, issued[r] + 1) - (IF at'[r][l] = "entry" THEN 1 ELSE 0)
            BY <1>3, <1>5 DEF Entered
          <5> QED BY <1>4, <4>1, <5>1, <5>2, <5>3
        <4>3. Numbered(p, r, l)'
          <5>1. /\ seq[r][l] = Num(base, Entered(r, l)) /\ flag[Peer(r)][l] = Num(base, p[r][l])
                /\ ~sticky[r] => Entered(r, l) = p[r][l]
                /\ p[r][l] <= Entered(r, l) /\ word[r][l] = 1
            BY <3>1, <3>3, <4>1 DEF Numbered
          <5>2. at'[r][l] # "off" => l \in prog'[issued'[r]] /\ issued'[r] > 0
            BY <1>3, <1>4, <1>5, <4>1
          <5> QED BY <1>3, <4>1, <4>2, <5>1, <5>2 DEF Numbered, Filling
        <4>4. Answered(p, r, l)'
          BY <1>3, <3>1, <3>3, <4>1 DEF Answered, Filling
        <4>5. Delivered(p, r, l)'
          BY <1>3, <3>1, <3>3, <4>1 DEF Delivered, HoldsCall, Filling
        <4> QED BY <3>3, <4>3, <4>4, <4>5 DEF LaneHolds
      <3> QED BY <3>2, <3>3
    <2> QED BY <2>1 DEF Lockstep, LaneHolds
  <1> QED BY <1>6, <1>7, <1>8, <1>9, <1>10 DEF IInv

(* A step that touches no lane keeps the lockstep. *)
LEMMA UntouchedLanes ==
  ASSUME NEW p, Lockstep(p), UNCHANGED <<prog, run, issued, at, word, seq, flag, box, sticky, base>>
  PROVE  Lockstep(p)'
  <1>1. ASSUME NEW q \in Rank, NEW l \in Lanes
        PROVE  (Numbered(p, q, l) /\ Answered(p, q, l) /\ Delivered(p, q, l))'
    <2>1. Numbered(p, q, l) /\ Answered(p, q, l) /\ Delivered(p, q, l)
      BY DEF Lockstep
    <2>2. Entered(q, l)' = Entered(q, l) /\ Slot(q, l)' = Slot(q, l) /\ Tag(q)' = Tag(q)
      BY DEF Entered, Slot, Tag
    <2>3. Numbered(p, q, l)'
      BY <2>1, <2>2 DEF Numbered
    <2>4. Answered(p, q, l)'
      BY <2>1 DEF Answered
    <2>5. Delivered(p, q, l)'
      BY <2>1, <2>2 DEF Delivered, HoldsCall
    <2> QED BY <2>3, <2>4, <2>5
  <1> QED BY <1>1 DEF Lockstep

(* What the host decides about a command leaves every lane alone. *)
LEMMA HostStep ==
  ASSUME IInv, NEW r \in Rank, HostAbort(r) \/ CheckHealthy(r) \/ Finish(r)
  PROVE  IInv'
  <1>1. PICK p \in Counts : Lockstep(p)
    BY DEF IInv
  <1>2. TypeOK /\ Reported /\ ReduceIsExact /\ NoProtocolViolation
    BY DEF IInv
  <1>3. UNCHANGED <<prog, run, issued, at, word, seq, flag, box, sticky, sum, short, base>>
    BY DEF HostAbort, CheckHealthy, Finish
  <1>4. /\ abort' \in [Rank -> AbortCodes]
        /\ \A q \in Rank : abort'[q] = abort[q] \/ abort'[q] = "host"
    BY <1>2 DEF HostAbort, CheckHealthy, Finish, TypeOK, AbortCodes
  <1>5. /\ host' \in [Rank -> {"run", "ok", "failed"}]
        /\ \A q \in Rank : q # r => host'[q] = host[q]
        /\ host'[r] = "ok" => Finish(r)
    BY <1>2 DEF HostAbort, CheckHealthy, Finish, TypeOK
  <1>6. TypeOK'
    BY <1>2, <1>3, <1>4, <1>5 DEF TypeOK
  <1>7. ReduceIsExact' /\ NoProtocolViolation'
    BY <1>2, <1>3, <1>4 DEF ReduceIsExact, NoProtocolViolation, Tag
  <1>8. Reported'
    <2>1. AnyAbort => AnyAbort'
      BY <1>4 DEF AnyAbort
    <2>2. ASSUME Finish(r) PROVE issued[r] = CallsPerRun /\ StreamIdle(r) /\ ~short[r]
      BY <1>2, <2>2 DEF Finish, Reported
    <2>3. \A q \in Rank : StreamIdle(q)' = StreamIdle(q)
      BY <1>3 DEF StreamIdle
    <2>4. ASSUME NEW q \in Rank, host'[q] = "ok" PROVE issued[q] = CallsPerRun /\ StreamIdle(q) /\ ~short[q]
      <3>1. CASE q = r
        BY <1>5, <2>2, <2>4, <3>1
      <3>2. CASE q # r
        BY <1>2, <1>5, <2>4, <3>2 DEF Reported
      <3> QED BY <3>1, <3>2
    <2> QED BY <1>2, <1>3, <2>1, <2>3, <2>4 DEF Reported
  <1>9. Lockstep(p)'
    BY <1>1, <1>3, UntouchedLanes
  <1> QED BY <1>6, <1>7, <1>8, <1>9 DEF IInv

(* A group whose counters, flags and base are one number and whose blocks  *)
(* are idle is in lockstep, whatever the mailbox holds: no call is flagged. *)
LEMMA FreshLane ==
  ASSUME NEW b \in 0 .. Modulus - 1
  PROVE  /\ Num(b, 0) = b
         /\ \A p, l : Calls(p, l, 0) = 0
         /\ \A p, l : \A k \in 1 .. CallsPerRun : l \in p[k] => Calls(p, l, k) \in Nat /\ Calls(p, l, k) >= 1
         /\ [r \in Rank |-> [l \in Lanes |-> 0]] \in Counts
  <1>1. Num(b, 0) = b
    BY ModulusFacts DEF Num
  <1>2. \A p, l : Calls(p, l, 0) = 0
    BY CallsCount
  <1>3. ASSUME NEW p, NEW l, NEW k \in 1 .. CallsPerRun, l \in p[k]
        PROVE  Calls(p, l, k) \in Nat /\ Calls(p, l, k) >= 1
    <2>1. k \in Nat \ {0}
      BY SizeAssumption
    <2> QED BY <1>3, <2>1, CallsCount, CallsPositive
  <1>4. [r \in Rank |-> [l \in Lanes |-> 0]] \in Counts
    BY SizeAssumption DEF Counts
  <1> QED BY <1>1, <1>2, <1>3, <1>4

(* The initial group. *)
LEMMA InitIInv == Init => IInv
  <1> SUFFICES ASSUME Init PROVE IInv
    OBVIOUS
  <1> DEFINE c == [r \in Rank |-> [l \in Lanes |-> 0]]
  <1>1. NoWord \in Nat \X Nat /\ 1 \in 1 .. Words /\ 0 \in 0 .. CallsPerRun
    BY SizeAssumption DEF NoWord
  <1>2. TypeOK
    <2>1. box \in Boxes /\ sum \in [Rank -> [Lanes -> [1 .. Words -> Nat \X Nat]]]
      BY <1>1 DEF Init, Boxes
    <2>2. /\ prog \in [1 .. CallsPerRun -> CallLanes] /\ run \in Nat
          /\ issued \in [Rank -> 0 .. CallsPerRun]
          /\ at \in [Rank -> [Lanes -> Places]]
          /\ word \in [Rank -> [Lanes -> 1 .. Words]]
      BY <1>1 DEF Init, Places
    <2>3. /\ seq \in [Rank -> [Lanes -> 0 .. Modulus - 1]]
          /\ flag \in [Rank -> [Lanes -> 0 .. Modulus - 1]]
          /\ base \in 0 .. Modulus - 1
      BY SizeAssumption DEF Init
    <2>4. /\ abort \in [Rank -> AbortCodes]
          /\ sticky \in [Rank -> BOOLEAN] /\ short \in [Rank -> BOOLEAN]
          /\ host \in [Rank -> {"run", "ok", "failed"}]
      BY DEF Init, AbortCodes
    <2> QED BY <2>1, <2>2, <2>3, <2>4 DEF TypeOK
  <1>3. Reported /\ NoProtocolViolation
    BY DEF Init, Reported, NoProtocolViolation
  <1>4. ReduceIsExact
    BY DEF Init, ReduceIsExact
  <1>5. /\ base = SeqBase /\ SeqBase \in 0 .. Modulus - 1
        /\ \A r \in Rank : issued[r] = 0 /\ Peer(r) \in Rank
        /\ \A r \in Rank, l \in Lanes :
             at[r][l] = "off" /\ word[r][l] = 1 /\ seq[r][l] = SeqBase /\ flag[r][l] = SeqBase
    BY SizeAssumption, RankFacts DEF Init
  <1>6. /\ Num(base, 0) = base /\ c \in Counts
        /\ \A p, l : Calls(p, l, 0) = 0
        /\ \A p, l : \A k \in 1 .. CallsPerRun : l \in p[k] => Calls(p, l, k) \in Nat /\ Calls(p, l, k) >= 1
    BY <1>5, FreshLane
  <1>7. ASSUME NEW r \in Rank, NEW l \in Lanes
        PROVE  Numbered(c, r, l) /\ Answered(c, r, l) /\ Delivered(c, r, l)
    <2>1. c[r][l] = 0 /\ c[Peer(r)][l] = 0
      BY <1>5
    <2> HIDE DEF c
    <2>2. Entered(r, l) = 0
      BY <1>5, <1>6 DEF Entered
    <2>3. Numbered(c, r, l)
      BY <1>5, <1>6, <2>1, <2>2 DEF Numbered, Filling
    <2>4. Answered(c, r, l)
      BY <1>5, <2>1 DEF Answered, Filling
    <2>5. Delivered(c, r, l)
      <3>1. ASSUME NEW s, NEW n \in {0, 0 - 1} PROVE HoldsCall(r, l, s, n)
        BY <1>6 DEF HoldsCall
      <3> QED BY <1>5, <2>1, <3>1 DEF Delivered, Filling
    <2> QED BY <2>3, <2>4, <2>5
  <1>8. \E pushed \in Counts : Lockstep(pushed)
    <2>1. Lockstep(c)
      BY <1>7 DEF Lockstep
    <2> HIDE DEF c
    <2> QED BY <1>6, <2>1
  <1> QED BY <1>2, <1>3, <1>4, <1>8 DEF IInv

(* Recovery starts the lockstep again from a new base. *)
LEMMA RecoverStep ==
  ASSUME IInv, Recover
  PROVE  IInv'
  <1> DEFINE c == [r \in Rank |-> [l \in Lanes |-> 0]]
  <1>0. PICK p \in Counts : Lockstep(p)
    BY DEF IInv
  <1>1. NoWord \in Nat \X Nat /\ 0 \in 0 .. CallsPerRun
    BY SizeAssumption DEF NoWord
  <1>2. TypeOK
    BY DEF IInv
  <1>3. NewBase \in 0 .. Modulus - 1
    <2>1. Lanes # {}
      <3>1. 1 \in 1 .. CallsPerRun
        BY SizeAssumption
      <3>2. prog[1] \in CallLanes
        BY <1>2, <3>1 DEF TypeOK
      <3> QED BY <3>2, LaneAssumption
    <2>2. SeqAdvance(0) \in Nat /\ SeqAdvance(1) \in Nat
      BY <1>2, <2>1, LargestAdvance DEF Rank
    <2>3. base \in Nat /\ Gap \in Nat
      BY <1>2, SizeAssumption DEF TypeOK
    <2> DEFINE most == IF SeqAdvance(0) >= SeqAdvance(1) THEN SeqAdvance(0) ELSE SeqAdvance(1)
    <2>4. most \in Nat
      BY <2>2
    <2>5. NewBase = (base + most + Gap) % Modulus
      BY DEF NewBase
    <2> HIDE DEF most
    <2> QED BY <2>3, <2>4, <2>5, ModulusFacts
  <1>4. /\ base' = NewBase
        /\ box' = [r \in Rank |-> [s \in {0, 1} |-> [l \in Lanes |-> [w \in 1 .. Words |-> NoWord]]]]
        /\ flag' = [r \in Rank |-> [l \in Lanes |-> NewBase]]
        /\ abort' = [r \in Rank |-> "none"]
        /\ seq' = [r \in Rank |-> [l \in Lanes |-> NewBase]]
        /\ sticky' = [r \in Rank |-> FALSE]
        /\ run' = run + 1
        /\ issued' = [r \in Rank |-> 0]
        /\ sum' = [r \in Rank |-> [l \in Lanes |-> [w \in 1 .. Words |-> NoWord]]]
        /\ short' = [r \in Rank |-> FALSE]
        /\ host' = [r \in Rank |-> "run"]
        /\ prog' \in [1 .. CallsPerRun -> CallLanes]
        /\ at' = at /\ word' = word
        /\ \A r \in Rank, l \in Lanes : at[r][l] = "off"
    BY DEF Recover, RecoverTo, StreamIdle
  <1>5. TypeOK'
    <2>1. (box \in Boxes)' /\ sum' \in [Rank -> [Lanes -> [1 .. Words -> Nat \X Nat]]]
      BY <1>1, <1>4 DEF Boxes
    <2>2. /\ prog' \in [1 .. CallsPerRun -> CallLanes] /\ run' \in Nat
          /\ issued' \in [Rank -> 0 .. CallsPerRun]
          /\ at' \in [Rank -> [Lanes -> Places]]
          /\ word' \in [Rank -> [Lanes -> 1 .. Words]]
      BY <1>1, <1>2, <1>4 DEF TypeOK
    <2>3. /\ seq' \in [Rank -> [Lanes -> 0 .. Modulus - 1]]
          /\ flag' \in [Rank -> [Lanes -> 0 .. Modulus - 1]]
          /\ base' \in 0 .. Modulus - 1
      BY <1>3, <1>4
    <2>4. /\ abort' \in [Rank -> AbortCodes]
          /\ sticky' \in [Rank -> BOOLEAN] /\ short' \in [Rank -> BOOLEAN]
          /\ host' \in [Rank -> {"run", "ok", "failed"}]
      BY <1>4 DEF AbortCodes
    <2> QED BY <2>1, <2>2, <2>3, <2>4 DEF TypeOK
  <1>6. Reported' /\ NoProtocolViolation'
    BY <1>4 DEF Reported, NoProtocolViolation
  <1>7. ReduceIsExact'
    BY <1>4 DEF ReduceIsExact
  <1>8. /\ \A r \in Rank : issued'[r] = 0 /\ Peer(r) \in Rank
        /\ \A r \in Rank, l \in Lanes :
             at'[r][l] = "off" /\ word'[r][l] = 1 /\ seq'[r][l] = NewBase /\ flag'[r][l] = NewBase
    <2>1. \A r \in Rank, l \in Lanes : word[r][l] = 1
      BY <1>0, <1>4 DEF Lockstep, Numbered
    <2> QED BY <1>4, <2>1, RankFacts
  <1>9. /\ Num(NewBase, 0) = NewBase /\ c \in Counts
        /\ \A q, l : Calls(q, l, 0) = 0
        /\ \A q, l : \A k \in 1 .. CallsPerRun : l \in q[k] => Calls(q, l, k) \in Nat /\ Calls(q, l, k) >= 1
    BY <1>3, FreshLane
  <1>10. ASSUME NEW r \in Rank, NEW l \in Lanes
         PROVE  (Numbered(c, r, l) /\ Answered(c, r, l) /\ Delivered(c, r, l))'
    <2>1. c[r][l] = 0 /\ c[Peer(r)][l] = 0
      BY <1>8
    <2> HIDE DEF c
    <2>2. Entered(r, l)' = 0
      BY <1>8, <1>9 DEF Entered
    <2>3. Numbered(c, r, l)'
      BY <1>4, <1>8, <1>9, <2>1, <2>2 DEF Numbered, Filling
    <2>4. Answered(c, r, l)'
      BY <1>8, <2>1 DEF Answered, Filling
    <2>5. Delivered(c, r, l)'
      <3>1. ASSUME NEW s, NEW n \in {0, 0 - 1} PROVE HoldsCall(r, l, s, n)'
        BY <1>9 DEF HoldsCall
      <3> QED BY <1>8, <2>1, <3>1 DEF Delivered, Filling
    <2> QED BY <2>3, <2>4, <2>5
  <1>11. (\E pushed \in Counts : Lockstep(pushed))'
    <2>1. Lockstep(c)'
      BY <1>10 DEF Lockstep
    <2> HIDE DEF c
    <2> QED BY <1>9, <2>1 DEF Counts
  <1> QED BY <1>5, <1>6, <1>7, <1>11 DEF IInv

-----------------------------------------------------------------------------
(* The theorems.                                                           *)

(* Every step keeps the invariant. *)
LEMMA NextIInv == IInv /\ [Next]_vars => IInv'
  <1> SUFFICES ASSUME IInv, [Next]_vars PROVE IInv'
    OBVIOUS
  <1>1. ASSUME NEW r \in Rank, NEW l \in Lanes, Kernel(r, l) PROVE IInv'
    <2>1. PICK p \in Counts : Lockstep(p)
      BY DEF IInv
    <2>2. TypeOK /\ Reported /\ ReduceIsExact /\ NoProtocolViolation
      BY DEF IInv
    <2>3. PICK c \in Counts : Lockstep(c)'
      BY <1>1, <2>1, <2>2, KernelLockstep
    <2>4. TypeOK'
      BY <1>1, <2>2, KernelShape
    <2>5. ReduceIsExact' /\ Reported' /\ NoProtocolViolation'
      BY <1>1, <2>1, <2>2, KernelExact, KernelReported
    <2> QED BY <2>3, <2>4, <2>5 DEF IInv, Counts
  <1>2. CASE UNCHANGED vars
    <2>1. TypeOK'
      BY <1>2 DEF vars, IInv, TypeOK
    <2>2. Reported' /\ ReduceIsExact' /\ NoProtocolViolation'
      BY <1>2 DEF vars, IInv, Reported, ReduceIsExact, NoProtocolViolation, AnyAbort, StreamIdle, Tag
    <2>3. PICK p \in Counts : Lockstep(p)
      BY DEF IInv
    <2>4. Lockstep(p)'
      BY <1>2, <2>3, UntouchedLanes DEF vars
    <2> QED BY <2>1, <2>2, <2>4 DEF IInv
  <1> QED BY <1>1, <1>2, LaunchStep, HostStep, RecoverStep DEF Next

(* The inductive invariant holds. *)
THEOREM MailboxInvHolds == Spec => []IInv
  BY InitIInv, NextIInv, PTL DEF Spec

(* The types hold: sequence numbers stay below the modulus. *)
THEOREM MailboxTypeOKHolds == Spec => []TypeOK
  <1>1. IInv => TypeOK
    BY DEF IInv
  <1> QED BY <1>1, MailboxInvHolds, PTL

(* A block adds the peer's words of its own call and no others, whatever   *)
(* was skipped, timed out, aborted or wrapped before.                      *)
THEOREM ReduceIsExactHolds == Spec => []ReduceIsExact
  <1>1. IInv => ReduceIsExact
    BY DEF IInv
  <1> QED BY <1>1, MailboxInvHolds, PTL

(* The kernel's protocol check never fires: no ABORT word ever holds its   *)
(* code.                                                                   *)
THEOREM NoProtocolViolationHolds == Spec => []NoProtocolViolation
  <1>1. IInv => NoProtocolViolation
    BY DEF IInv
  <1> QED BY <1>1, MailboxInvHolds, PTL

(* A rank whose command passed CheckHealthy reduced every chunk. *)
THEOREM NoSilentPartialHolds == Spec => []NoSilentPartial
  <1>1. IInv => NoSilentPartial
    BY DEF IInv, Reported, NoSilentPartial
  <1> QED BY <1>1, MailboxInvHolds, PTL
=============================================================================
