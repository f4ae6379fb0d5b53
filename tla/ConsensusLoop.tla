--------------------------- MODULE ConsensusLoop ---------------------------
(***************************************************************************)
(* consensus::ConsensusLoop of one node (src/consensus/consensus_loop.cpp):*)
(* the thread that proposes and watches the view timeout, the network      *)
(* thread that runs handle_block_message, and the thread that calls start  *)
(* and stop.  last_block_time_ is a plain uint64_t that the first two share *)
(* without a lock.                                                         *)
(*                                                                         *)
(* Time is kept as ages: age is the clock minus last_block_time_ and lag   *)
(* the clock minus the `now' the loop thread has read, so that the code's  *)
(* now - last_block_time_ is age - lag.  Ages stop growing at MaxAge, which*)
(* is above every limit they are compared with, and views count modulo the *)
(* number of active validators: the state space is finite without a bound  *)
(* on the length of a run, but for the number of blocks that arrive.       *)
(***************************************************************************)
EXTENDS Integers

CONSTANTS
  BlockTime,     \* block_time_ms, in ticks
  ViewTimeout,   \* view_timeout_ms, in ticks
  MaxLag,        \* bound on the ticks between reading a clock and using it
  ActiveCount,   \* active validators in the registry
  self,          \* this node's place among them; ActiveCount: not a validator
  MaxArrivals    \* bound on the acceptable blocks of others that arrive

ASSUME LoopConstants ==
  /\ BlockTime \in Nat \ {0} /\ ViewTimeout \in Nat \ {0} /\ MaxLag \in Nat
  /\ ActiveCount \in Nat /\ self \in 0..ActiveCount
  /\ MaxArrivals \in Nat

\* Ages are exact up to here.
MaxAge == ViewTimeout + BlockTime + MaxLag + 1

VARIABLES
  running_,
  consensus_thread, \* where consensus_thread_ is; "none": not started or joined
  caller,   \* the thread that calls start and stop
  handlers, \* are the message handlers registered?
  age,      \* the clock - last_block_time_
  lag,      \* the clock - now, while the loop thread holds a now
  view,     \* the engine's current_view_, modulo ActiveCount
  arrivals, \* blocks of others accepted so far (only to bound them)
  quiet     \* ticks since a block was accepted or proposed, or a view change

loopVars == <<running_, consensus_thread, caller, handlers, age, lag, view,
              arrivals, quiet>>

ThreadStates ==
  {"none", "top", "propose", "due", "proposing", "timeout", "check", "sleep", "done"}

-----------------------------------------------------------------------------
(* now - last_block_time_ in uint64_t: a last_block_time_ after now makes  *)
(* the difference wrap to almost 2^64, which is above every limit.         *)

Wrapped(a, l) == a < l

\* Mutant: the timeout fires a tick early.
ElapsedAtLeast(limit) == Wrapped(age, lag) \/ age - lag >= limit

\* now - last_block_time_ > limit
ElapsedMore(limit) == Wrapped(age, lag) \/ age - lag > limit

\* now - last_block_time_ < limit
ElapsedLess(limit) == ~Wrapped(age, lag) /\ age - lag < limit

IsLeader == ActiveCount > 0 /\ view = self

-----------------------------------------------------------------------------
(* The loop thread, one action per access to shared state *)

\* Mutant: the loop looks at running_ only when it does not lead.
LoopTopUnchecked ==
  /\ consensus_thread = "top"
  /\ consensus_thread' = IF IsLeader THEN "propose" ELSE IF running_ THEN "timeout" ELSE "done"
  /\ UNCHANGED <<running_, caller, handlers, age, lag, view, arrivals, quiet>>

LoopTop ==
  /\ consensus_thread = "top"
  /\ consensus_thread' = IF ~running_ THEN "done"
               ELSE IF IsLeader THEN "propose" ELSE "timeout"
  /\ UNCHANGED <<running_, caller, handlers, age, lag, view, arrivals, quiet>>

\* propose_block and check_view_timeout read the clock first.
ReadClock ==
  /\ consensus_thread \in {"propose", "timeout"}
  /\ consensus_thread' = IF consensus_thread = "propose" THEN "due" ELSE "check"
  /\ lag' = 0
  /\ UNCHANGED <<running_, caller, handlers, age, view, arrivals, quiet>>

ProposalDue ==
  /\ consensus_thread = "due"
  /\ consensus_thread' = IF ElapsedLess(BlockTime) THEN "timeout" ELSE "proposing"
  /\ UNCHANGED <<running_, caller, handlers, age, lag, view, arrivals, quiet>>

\* The engine proposes and the block is broadcast; last_block_time_ becomes
\* the time read before that.
Propose ==
  /\ consensus_thread = "proposing"
  /\ consensus_thread' = "timeout"
  /\ age' = lag /\ quiet' = 0
  /\ UNCHANGED <<running_, caller, handlers, lag, view, arrivals>>

\* The engine makes no block.
ProposeNothing ==
  /\ consensus_thread = "proposing"
  /\ consensus_thread' = "timeout"
  /\ UNCHANGED <<running_, caller, handlers, age, lag, view, arrivals, quiet>>

\* An exception in the engine or the network skips the view timeout.
ProposeThrows ==
  /\ consensus_thread = "proposing"
  /\ consensus_thread' = "sleep"
  /\ UNCHANGED <<running_, caller, handlers, age, lag, view, arrivals, quiet>>

\* Mutant: the timer is restarted whether or not it has run out.
CheckRestarts ==
  /\ consensus_thread = "check"
  /\ consensus_thread' = "sleep"
  /\ IF ElapsedMore(ViewTimeout) /\ ActiveCount > 0
     THEN view' = (view + 1) % ActiveCount /\ quiet' = 0
     ELSE UNCHANGED <<view, quiet>>
  /\ age' = lag
  /\ UNCHANGED <<running_, caller, handlers, lag, arrivals>>

\* trigger_view_change fails without active validators: the time is then left
\* alone and the next round tries again (the view it has counted up is no
\* validator's).
CheckViewTimeout ==
  /\ consensus_thread = "check"
  /\ consensus_thread' = "sleep"
  /\ IF ElapsedMore(ViewTimeout) /\ ActiveCount > 0
     THEN view' = (view + 1) % ActiveCount /\ age' = lag /\ quiet' = 0
     ELSE UNCHANGED <<view, age, quiet>>
  /\ UNCHANGED <<running_, caller, handlers, lag, arrivals>>

Wake ==
  /\ consensus_thread = "sleep"
  /\ consensus_thread' = "top"
  /\ UNCHANGED <<running_, caller, handlers, age, lag, view, arrivals, quiet>>

LoopThread ==
  \/ LoopTop \/ ReadClock \/ ProposalDue
  \/ Propose \/ ProposeNothing \/ ProposeThrows
  \/ CheckViewTimeout \/ Wake

-----------------------------------------------------------------------------
(* The other threads, and time *)

\* handle_block_message of a block the engine accepts; the handlers stay
\* registered when the loop stops.
HandleBlock ==
  /\ handlers /\ arrivals < MaxArrivals
  /\ arrivals' = arrivals + 1
  /\ age' = 0 /\ quiet' = 0
  /\ UNCHANGED <<running_, consensus_thread, handlers, caller, lag, view>>

Start ==
  /\ caller = "idle" /\ ~running_
  /\ running_' = TRUE /\ handlers' = TRUE
  /\ consensus_thread' = "top"
  /\ UNCHANGED <<caller, age, lag, view, arrivals, quiet>>

Stop ==
  /\ caller = "idle" /\ running_
  /\ running_' = FALSE
  /\ caller' = "joining"
  /\ UNCHANGED <<consensus_thread, handlers, age, lag, view, arrivals, quiet>>

StopReturns ==
  /\ caller = "joining" /\ consensus_thread = "done"
  /\ caller' = "idle"
  /\ consensus_thread' = "none"
  /\ UNCHANGED <<running_, handlers, age, lag, view, arrivals, quiet>>

Holds == consensus_thread \in {"due", "proposing", "check"}

Older(n) == IF n < MaxAge THEN n + 1 ELSE n

LoopTick ==
  /\ Holds => lag < MaxLag
  /\ age' = Older(age) /\ quiet' = Older(quiet)
  /\ lag' = IF Holds THEN lag + 1 ELSE 0
  /\ UNCHANGED <<running_, consensus_thread, handlers, caller, view, arrivals>>

-----------------------------------------------------------------------------
(* The specification *)

\* last_block_time_ is 0: long ago.
Init ==
  /\ running_ = FALSE /\ consensus_thread = "none" /\ caller = "idle" /\ handlers = FALSE
  /\ age = MaxAge /\ lag = 0 /\ view = 0 /\ arrivals = 0 /\ quiet = MaxAge

Next == LoopThread \/ HandleBlock \/ Start \/ Stop \/ StopReturns \/ LoopTick

Spec == Init /\ [][Next]_loopVars

\* Threads are scheduled; time passes, for the loop sleeps in every round; nobody
\* has to call start or stop.
FairSpec ==
  /\ Spec
  /\ WF_loopVars(LoopThread) /\ WF_loopVars(StopReturns) /\ SF_loopVars(LoopTick)

-----------------------------------------------------------------------------
(* Properties *)

\* Types; and the loop thread exists exactly between start and the end of stop.
LoopTypeOK ==
  /\ running_ \in BOOLEAN /\ consensus_thread \in ThreadStates
  /\ caller \in {"idle", "joining"} /\ handlers \in BOOLEAN
  /\ age \in 0..MaxAge /\ quiet \in 0..MaxAge /\ lag \in 0..MaxLag
  /\ view \in 0..ActiveCount /\ arrivals \in 0..MaxArrivals
  /\ consensus_thread = "none" <=> ~running_ /\ caller = "idle"

\* A view lasts: trigger_view_change is called no sooner than view_timeout_ms
\* after the last block or view change, but for the time a thread may lose
\* between reading the clock and using it.
ViewChangeNotEarly ==
  [][view' # view => quiet + MaxLag > ViewTimeout]_loopVars

\* A silent leader is replaced: while the loop runs, a view in which another
\* validator leads comes to an end once no more blocks arrive.
SilentLeaderReplaced ==
  \A v \in 0..(ActiveCount - 1) \ {self} :
    (running_ /\ view = v) ~> (~running_ \/ view # v)

\* stop returns: the loop thread sees running_ and ends, wherever it is.
StopTerminates == (caller = "joining") ~> (caller = "idle")
=============================================================================
