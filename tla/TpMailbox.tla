----------------------------- MODULE TpMailbox -----------------------------
(***************************************************************************)
(* The device all-reduce of the two-GPU group: the kernel of               *)
(* src/src/kernels/src/r4dx_tp_kernels.hip, launched by                    *)
(* src/src/model/tp/tp_comm_host_mailbox.cpp over the pinned mailbox of    *)
(* src/src/model/tp/tp_group.cpp, and TpGroup::Recover.                    *)
(*                                                                         *)
(* A lane is one (channel, block): its own sequence counter in each GPU's  *)
(* VRAM, its own flag word and two slots per rank in host memory.  A call  *)
(* uses the first nb blocks of one channel, so lanes advance unevenly.     *)
(* The kernel pushes its chunk word by word into the PEER's slot, release- *)
(* stores the peer's flag, spins on its own flag and then adds its own     *)
(* slot.  Nothing but the sequence number's low bit protects a slot.       *)
(*                                                                         *)
(* A chunk word is abstracted to the call it belongs to (<<run, call>>):   *)
(* that is what the reduction must get right.  Sequence numbers wrap at    *)
(* Modulus (2^32 in the code) and are compared as signed differences.      *)
(***************************************************************************)
EXTENDS Integers, Sequences, FiniteSets

CONSTANTS
  Lanes,      \* the (channel, block) pairs
  CallLanes,  \* the lane sets a call may use (a prefix of a channel's blocks)
  Words,      \* words per chunk
  CallsPerRun,\* bound: all-reduces of one run (the calls between recoveries)
  MaxRuns,    \* bound: runs, so MaxRuns - 1 recoveries
  Modulus,    \* sequence numbers are modulo this
  SeqBase,    \* the group's initial sequence base
  Gap         \* the distance a recovery adds above every used number (64)

ASSUME LaneAssumption == CallLanes \subseteq (SUBSET Lanes) \ {{}}
ASSUME SizeAssumption ==
  /\ Words \in Nat \ {0} /\ CallsPerRun \in Nat \ {0} /\ MaxRuns \in Nat \ {0}
  /\ Modulus \in Nat \ {0} /\ Modulus % 4 = 0
  /\ SeqBase \in 0 .. Modulus - 1 /\ Gap \in Nat

Rank == {0, 1}
Peer(r) == 1 - r
NoWord == <<0, 0>>
AbortCodes == {"none", "timeout", "protocol", "host"}

VARIABLES
  prog,    \* ghost: the lane sets of the run's calls, the same on both ranks
  run,     \* ghost: number of the run
  issued,  \* [rank]: kernels started on the rank's stream in this run
  at,      \* [rank][lane]: the block's program counter in the current kernel
  word,    \* [rank][lane]: next word of its push or reduce loop
  seq,     \* [rank][lane]: VRAM sequence counter
  flag,    \* [rank][lane]: the rank's flag line, stored by the peer
  box,     \* [rank][slot][lane][word]: the rank's mailbox, stored by the peer
  abort,   \* [rank]: the rank's ABORT word in host memory
  sticky,  \* [rank]: the rank's VRAM sticky word
  sum,     \* [rank][lane][word]: what the current call added to the own word
  short,   \* ghost [rank]: some block of this run did not reduce its chunk
  base,    \* seq_base_
  host     \* [rank]: "run", "ok" (CheckHealthy passed) or "failed"

vars == <<prog, run, issued, at, word, seq, flag, box, abort, sticky, sum, short, base, host>>

(* Where a block can be.  "off": not part of the current kernel.           *)
Places == {"off", "entry", "push", "flag", "spin", "slow", "late", "mark", "reduce"}

Tag(r) == <<run, issued[r]>>
Slot(r, l) == seq[r][l] % 2
\* (int)(a - b), as the offset of a from b in the upper half of the ring or not
Offset(a, b) == (a - b + Modulus) % Modulus
AtLeast(a, b) == Offset(a, b) < Modulus \div 2
AnyAbort == \E r \in Rank : abort[r] # "none"

Init ==
  /\ prog \in [1 .. CallsPerRun -> CallLanes]
  /\ run = 1
  /\ issued = [r \in Rank |-> 0]
  /\ at = [r \in Rank |-> [l \in Lanes |-> "off"]]
  /\ word = [r \in Rank |-> [l \in Lanes |-> 1]]
  /\ seq = [r \in Rank |-> [l \in Lanes |-> SeqBase]]
  /\ flag = [r \in Rank |-> [l \in Lanes |-> SeqBase]]
  /\ box = [r \in Rank |-> [s \in {0, 1} |-> [l \in Lanes |-> [w \in 1 .. Words |-> NoWord]]]]
  /\ abort = [r \in Rank |-> "none"]
  /\ sticky = [r \in Rank |-> FALSE]
  /\ sum = [r \in Rank |-> [l \in Lanes |-> [w \in 1 .. Words |-> NoWord]]]
  /\ short = [r \in Rank |-> FALSE]
  /\ base = SeqBase
  /\ host = [r \in Rank |-> "run"]

StreamIdle(r) == \A l \in Lanes : at[r][l] = "off"
Move(r, l, to) == at' = [at EXCEPT ![r][l] = to]

(* AllReduceSumBf16 enqueues and never blocks: the stream runs the kernels *)
(* of the calls in order, those queued before the host failed included.    *)
Launch(r) ==
  /\ StreamIdle(r)
  /\ issued[r] < CallsPerRun
  /\ issued' = [issued EXCEPT ![r] = @ + 1]
  /\ at' = [at EXCEPT ![r] = [l \in Lanes |->
             IF l \in prog[issued[r] + 1] THEN "entry" ELSE "off"]]
  /\ sum' = [sum EXCEPT ![r] = [l \in Lanes |-> [w \in 1 .. Words |-> NoWord]]]
  /\ UNCHANGED <<prog, run, word, seq, flag, box, abort, sticky, short, base, host>>

\* Mutant: the sticky word is not honoured, the aborted rank pushes again.
EntryIgnoresSticky(r, l) ==
  /\ at[r][l] = "entry"
  /\ seq' = [seq EXCEPT ![r][l] = (@ + 1) % Modulus]
  /\ Move(r, l, "push")
  /\ UNCHANGED <<prog, run, issued, word, flag, box, abort, sticky, sum, short, base, host>>

(* ar_entry: the sequence number advances even when a sticky abort makes   *)
(* the block skip the call.                                                *)
Entry(r, l) ==
  /\ at[r][l] = "entry"
  /\ seq' = [seq EXCEPT ![r][l] = (@ + 1) % Modulus]
  /\ IF sticky[r]
       THEN Move(r, l, "off") /\ short' = [short EXCEPT ![r] = TRUE]
       ELSE Move(r, l, "push") /\ UNCHANGED short
  /\ UNCHANGED <<prog, run, issued, word, flag, box, abort, sticky, sum, base, host>>

(* The word loops of PUSH and REDUCE.                                      *)
NextWord(r, l, after) ==
  IF word[r][l] < Words
    THEN word' = [word EXCEPT ![r][l] = @ + 1] /\ UNCHANGED at
    ELSE word' = [word EXCEPT ![r][l] = 1] /\ Move(r, l, after)

Push(r, l) ==
  /\ at[r][l] = "push"
  /\ box' = [box EXCEPT ![Peer(r)][Slot(r, l)][l][word[r][l]] = Tag(r)]
  /\ NextWord(r, l, "flag")
  /\ UNCHANGED <<prog, run, issued, seq, flag, abort, sticky, sum, short, base, host>>

StoreFlag(r, l) ==
  /\ at[r][l] = "flag"
  /\ flag' = [flag EXCEPT ![Peer(r)][l] = seq[r][l]]
  /\ Move(r, l, "spin")
  /\ UNCHANGED <<prog, run, issued, word, seq, box, abort, sticky, sum, short, base, host>>

(* A failed block never reduces: its output keeps the rank's own partial.  *)
Bail(r, l) ==
  /\ Move(r, l, "off")
  /\ sticky' = [sticky EXCEPT ![r] = TRUE]
  /\ short' = [short EXCEPT ![r] = TRUE]
  /\ UNCHANGED <<prog, run, issued, word, seq, flag, box, sum, base, host>>

\* Mutant: the failure stays in the rank's VRAM.
NoteFailureQuiet(r, l, code) ==
  /\ Move(r, l, "mark")
  /\ UNCHANGED <<prog, run, issued, word, seq, flag, box, abort, sticky, sum, short, base, host>>

(* note_failure: the ABORT word first, the sticky word in a later step.    *)
NoteFailure(r, l, code) ==
  /\ abort' = [abort EXCEPT ![r] = code]
  /\ Move(r, l, "mark")
  /\ UNCHANGED <<prog, run, issued, word, seq, flag, box, sticky, sum, short, base, host>>

MarkSticky(r, l) ==
  /\ at[r][l] = "mark"
  /\ Bail(r, l)
  /\ UNCHANGED abort

(* spin_flag_ge, the flag load.  Reached with the peer at most one call    *)
(* ahead: reduce.  Two or more ahead: the peer pushed after an abort, or   *)
(* the protocol is broken.                                                 *)
SpinReached(r, l) ==
  /\ at[r][l] = "spin"
  /\ AtLeast(flag[r][l], seq[r][l])
  /\ IF Offset(flag[r][l], seq[r][l]) < 2
       THEN /\ Move(r, l, "reduce")
            /\ UNCHANGED <<prog, run, issued, word, seq, flag, box, abort, sticky, sum, short, base, host>>
       ELSE IF AnyAbort THEN Bail(r, l) /\ UNCHANGED abort ELSE NoteFailure(r, l, "protocol")

Poll(r, l, from, to) ==
  /\ at[r][l] = from
  /\ Move(r, l, to)
  /\ UNCHANGED <<prog, run, issued, word, seq, flag, box, abort, sticky, sum, short, base, host>>

SpinMiss(r, l) == ~AtLeast(flag[r][l], seq[r][l]) /\ Poll(r, l, "spin", "slow")

(* Every 16th poll loads the ABORT words after a flag value that missed;   *)
(* one that is set ends the wait, else the clock may, else it polls again. *)
SlowAbort(r, l) ==
  /\ at[r][l] = "slow"
  /\ AnyAbort
  /\ Bail(r, l)
  /\ UNCHANGED abort

SlowAgain(r, l) == ~AnyAbort /\ Poll(r, l, "slow", "spin")
SlowLate(r, l) == ~AnyAbort /\ Poll(r, l, "slow", "late")

\* Mutant: the elapsed time is computed and not acted on.
TimeOutIgnored(r, l) == Poll(r, l, "late", "spin")

TimeOut(r, l) == at[r][l] = "late" /\ NoteFailure(r, l, "timeout")

Reduce(r, l) ==
  /\ at[r][l] = "reduce"
  /\ sum' = [sum EXCEPT ![r][l][word[r][l]] = box[r][Slot(r, l)][l][word[r][l]]]
  /\ NextWord(r, l, "off")
  /\ UNCHANGED <<prog, run, issued, seq, flag, box, abort, sticky, short, base, host>>

-----------------------------------------------------------------------------
(* The host side of a rank's command (TpModel::Run's closure).             *)

(* The forward threw, or the facade poisons the group: HostMailboxComm::   *)
(* Abort keeps a code that is already there.                               *)
HostAbort(r) ==
  /\ host[r] = "run"
  /\ abort' = [abort EXCEPT ![r] = IF @ = "none" THEN "host" ELSE @]
  /\ host' = [host EXCEPT ![r] = "failed"]
  /\ UNCHANGED <<prog, run, issued, at, word, seq, flag, box, sticky, sum, short, base>>

(* CheckHealthy reads both ABORT words.  It fails a command at its start   *)
(* or, its streams synchronized, at its end; it aborts nobody itself.      *)
CheckHealthy(r) ==
  /\ host[r] = "run"
  /\ AnyAbort
  /\ host' = [host EXCEPT ![r] = "failed"]
  /\ UNCHANGED <<prog, run, issued, at, word, seq, flag, box, abort, sticky, sum, short, base>>

Finish(r) ==
  /\ host[r] = "run"
  /\ issued[r] = CallsPerRun
  /\ StreamIdle(r)
  /\ ~AnyAbort
  /\ host' = [host EXCEPT ![r] = "ok"]
  /\ UNCHANGED <<prog, run, issued, at, word, seq, flag, box, abort, sticky, sum, short, base>>

(* SeqAdvance: the largest advance of any of the rank's counters.          *)
SeqAdvance(r) ==
  LET adv == {Offset(seq[r][l], base) : l \in Lanes}
  IN CHOOSE m \in adv : \A n \in adv : n <= m

(* TpGroup::Recover, with both ranks idle and every stream synchronized:   *)
(* a base above every number used, a zeroed mailbox whose flags hold it,   *)
(* the counters of both ranks rebased, the sticky words cleared.  The      *)
(* self-test that ends it is the first calls of the next run.              *)
RecoverTo(newBase, newSeq) ==
  /\ \A r \in Rank : host[r] # "run" /\ StreamIdle(r)
  /\ \E r \in Rank : host[r] = "failed"
  /\ run < MaxRuns
  /\ base' = newBase
  /\ box' = [r \in Rank |-> [s \in {0, 1} |-> [l \in Lanes |-> [w \in 1 .. Words |-> NoWord]]]]
  /\ flag' = [r \in Rank |-> [l \in Lanes |-> newBase]]
  /\ abort' = [r \in Rank |-> "none"]
  /\ seq' = newSeq
  /\ sticky' = [r \in Rank |-> FALSE]
  /\ run' = run + 1
  /\ issued' = [r \in Rank |-> 0]
  /\ sum' = [r \in Rank |-> [l \in Lanes |-> [w \in 1 .. Words |-> NoWord]]]
  /\ short' = [r \in Rank |-> FALSE]
  /\ host' = [r \in Rank |-> "run"]
  /\ prog' \in [1 .. CallsPerRun -> CallLanes]
  /\ UNCHANGED <<at, word>>

NewBase ==
  LET most == IF SeqAdvance(0) >= SeqAdvance(1) THEN SeqAdvance(0) ELSE SeqAdvance(1)
  IN (base + most + Gap) % Modulus

\* Mutant: the mailbox and rank 0 are rebased, rank 1's counters are not.
RecoverOneRank ==
  RecoverTo(NewBase, [r \in Rank |-> [l \in Lanes |-> IF r = 0 THEN NewBase ELSE seq[r][l]]])

Recover == RecoverTo(NewBase, [r \in Rank |-> [l \in Lanes |-> NewBase]])

Kernel(r, l) ==
  \/ Entry(r, l) \/ Push(r, l) \/ StoreFlag(r, l)
  \/ SpinReached(r, l) \/ SpinMiss(r, l)
  \/ SlowAbort(r, l) \/ SlowAgain(r, l) \/ SlowLate(r, l) \/ TimeOut(r, l)
  \/ MarkSticky(r, l) \/ Reduce(r, l)

Next ==
  \/ \E r \in Rank, l \in Lanes : Kernel(r, l)
  \/ \E r \in Rank : Launch(r) \/ HostAbort(r) \/ CheckHealthy(r) \/ Finish(r)
  \/ Recover

Spec == Init /\ [][Next]_vars

(* A resident block keeps executing, and its spin reads a clock: it cannot *)
(* stay in the wait loop for ever.  Nothing makes a host enqueue a call.   *)
SlowExit(r, l) == SlowAbort(r, l) \/ SlowLate(r, l)
Fairness ==
  \A r \in Rank, l \in Lanes : WF_vars(Kernel(r, l)) /\ SF_vars(SlowExit(r, l))
FairSpec == Spec /\ Fairness

-----------------------------------------------------------------------------
Boxes == [Rank -> [{0, 1} -> [Lanes -> [1 .. Words -> Nat \X Nat]]]]
TypeOK ==
  /\ prog \in [1 .. CallsPerRun -> CallLanes] /\ run \in Nat
  /\ issued \in [Rank -> 0 .. CallsPerRun]
  /\ at \in [Rank -> [Lanes -> Places]]
  /\ word \in [Rank -> [Lanes -> 1 .. Words]]
  /\ seq \in [Rank -> [Lanes -> 0 .. Modulus - 1]]
  /\ flag \in [Rank -> [Lanes -> 0 .. Modulus - 1]]
  /\ abort \in [Rank -> AbortCodes]
  /\ sticky \in [Rank -> BOOLEAN] /\ short \in [Rank -> BOOLEAN]
  /\ box \in Boxes
  /\ sum \in [Rank -> [Lanes -> [1 .. Words -> Nat \X Nat]]]
  /\ base \in 0 .. Modulus - 1
  /\ host \in [Rank -> {"run", "ok", "failed"}]

(* Every word a block adds is the peer's word of the SAME call: never one  *)
(* the peer has not pushed yet, never one it already overwrote for a later *)
(* call, whatever aborts, time-outs, skipped calls and wrap-arounds did.   *)
ReduceIsExact ==
  \A r \in Rank, l \in Lanes, w \in 1 .. Words : sum[r][l][w] \in {NoWord, Tag(r)}

(* The kernel's "legal: s or s+1 only" check never fires: no interleaving  *)
(* of the protocol, failures included, looks like a protocol violation.    *)
NoProtocolViolation == \A r \in Rank : abort[r] # "protocol"

(* A rank whose command passed CheckHealthy reduced every chunk of every   *)
(* call: a block that skipped or bailed out is never reported as success.  *)
NoSilentPartial == \A r \in Rank : host[r] = "ok" => ~short[r]

(* No kernel spins for ever, so the stream drain a recovery starts with    *)
(* ends, even if the peer never launches the call.                         *)
StreamsDrain == \A r \in Rank : ~StreamIdle(r) ~> StreamIdle(r)

-----------------------------------------------------------------------------
(* The inductive invariant behind ReduceIsExact, NoProtocolViolation and   *)
(* NoSilentPartial (TpMailboxProofs).                                      *)

(* Calls of program p among the first k that use lane l; those of rank r   *)
(* whose entry is behind it; the sequence number of the n-th call after b. *)
Calls(p, l, k) == Cardinality({i \in 1 .. k : l \in p[i]})
Entered(r, l) == Calls(prog, l, issued[r]) - (IF at[r][l] = "entry" THEN 1 ELSE 0)
Num(b, n) == (b + n) % Modulus
Parity(b, n) == Num(b, n) % 2

(* pushed[r][l]: how many calls rank r has flagged to its peer on lane l.  *)
Counts == [Rank -> [Lanes -> 0 .. CallsPerRun]]
Filling == {"push", "flag"}

(* The numbers: what a block counts and what its peer was told, until a    *)
(* sticky rank only counts.                                                *)
Numbered(pushed, r, l) ==
  /\ seq[r][l] = Num(base, Entered(r, l))
  /\ flag[Peer(r)][l] = Num(base, pushed[r][l])
  /\ at[r][l] # "off" => l \in prog[issued[r]] /\ issued[r] > 0
  /\ at[r][l] \in Filling => Entered(r, l) = pushed[r][l] + 1
  /\ at[r][l] \in {"spin", "slow", "late", "mark", "reduce"} => Entered(r, l) = pushed[r][l]
  /\ at[r][l] \in {"off", "entry"} /\ ~sticky[r] => Entered(r, l) = pushed[r][l]
  /\ pushed[r][l] <= Entered(r, l)
  /\ at[r][l] \notin {"push", "reduce"} => word[r][l] = 1

(* The handshake: a block that went on to a next call, or to its reduction,*)
(* had seen its peer's flag for the call before, or for this one.          *)
Answered(pushed, r, l) ==
  /\ pushed[r][l] <= pushed[Peer(r)][l] + 1
  /\ at[r][l] \in Filling \cup {"reduce"} => pushed[r][l] <= pushed[Peer(r)][l]
  /\ at[r][l] \in {"off", "entry"} /\ ~sticky[r] => pushed[r][l] <= pushed[Peer(r)][l]

(* The slots of the peer's mailbox: the last flagged call is whole in one, *)
(* the call before it in the other until the next push fills that.         *)
HoldsCall(r, l, slot, n) ==
  \A k \in 1 .. CallsPerRun, w \in 1 .. Words :
    l \in prog[k] /\ Calls(prog, l, k) = n => box[Peer(r)][slot][l][w] = <<run, k>>
Delivered(pushed, r, l) ==
  /\ HoldsCall(r, l, Parity(base, pushed[r][l]), pushed[r][l])
  /\ at[r][l] \notin Filling => HoldsCall(r, l, 1 - Parity(base, pushed[r][l]), pushed[r][l] - 1)
  /\ at[r][l] \in Filling => \A w \in 1 .. Words :
       at[r][l] = "flag" \/ w < word[r][l] => box[Peer(r)][Slot(r, l)][l][w] = Tag(r)

(* A block that did not reduce leaves an ABORT word behind.                *)
Reported ==
  /\ \A r \in Rank : sticky[r] \/ short[r] => AnyAbort
  /\ \A r \in Rank, l \in Lanes : at[r][l] = "mark" => AnyAbort
  /\ \A r \in Rank : host[r] = "ok" => issued[r] = CallsPerRun /\ StreamIdle(r) /\ ~short[r]

Lockstep(pushed) ==
  \A r \in Rank, l \in Lanes :
    Numbered(pushed, r, l) /\ Answered(pushed, r, l) /\ Delivered(pushed, r, l)

IInv ==
  /\ TypeOK /\ Reported /\ ReduceIsExact /\ NoProtocolViolation
  /\ \E pushed \in Counts : Lockstep(pushed)
=============================================================================
