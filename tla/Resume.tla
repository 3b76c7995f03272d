------------------------------- MODULE Resume -------------------------------
(***************************************************************************)
(* Suspension and rejoining of a multipath session with resume (the traces *)
(* resume.* of tools/build_traces.py).  J dials, A accepts.  A pipe pair or *)
(* a one-way pipe is an attachment; each end has a state of its own for it, *)
(* learns of its death at a time of its own, and keeps it, failed, until it *)
(* is retired.  Pipe IDs are never reused: a slot stands for one ID after   *)
(* another, and takes the next once neither end remembers the last.         *)
(* Data, positions and reinjection are the subject of Failover.             *)
(*                                                                         *)
(* Time.  A timer is an action that may happen once its condition lasts;    *)
(* that it expires although the peer was only slow is a Pause.              *)
(***************************************************************************)
EXTENDS Naturals, FiniteSets

CONSTANTS
  Slot,        \* attachments that may be remembered at a time
  Boot,        \* the bootstrap pair
  Cap,         \* unretired attachments an end keeps (max_pipes + 8)
  Dirs,        \* directions that J joins
  RejoinDirs,  \* those that it keeps joining while suspended
  MaxFaults    \* bound on cut and silent carriers, pauses and removals

ASSUME BootAssumption == Boot \in Slot
ASSUME CapAssumption  == Cap \in Nat /\ Cap >= 2
ASSUME SlotAssumption == IsFiniteSet(Slot) /\ Cardinality(Slot) > 2 * Cap
ASSUME DirsAssumption == RejoinDirs \subseteq Dirs /\ Dirs \subseteq {"up", "down", "bidi"}
ASSUME FaultAssumption == MaxFaults \in Nat

End == {"J", "A"}
Peer(e) == IF e = "J" THEN "A" ELSE "J"

VARIABLES
  dir,         \* direction of each attachment, as its join said
  net,         \* its carrier: "ok", "silent" (moves nothing, no error) or "cut"
  st,          \* its state at each end
  sus,         \* the ends that are SUSPENDED
  over,        \* the grace period of an end expired: it closed
  faults       \* faults so far

vars == <<dir, net, st, sus, over, faults>>

TypeOK ==
  /\ dir \in [Slot -> {"up", "down", "bidi"}]
  /\ net \in [Slot -> {"ok", "silent", "cut"}]
  /\ st \in [End -> [Slot -> {"none", "joining", "live", "failed"}]]
  /\ \A s \in Slot : st["A"][s] # "joining" /\ (st["J"][s] = "joining" => dir[s] \in Dirs)
  /\ sus \in [End -> BOOLEAN]
  /\ over \in BOOLEAN
  /\ faults \in 0..MaxFaults

-----------------------------------------------------------------------------
(* What an attachment of direction d gives an end: an outbound or an inbound *)
(* pipe.  up is from J to A.                                                 *)
GivesOut(e, d) == d = "bidi" \/ d = (IF e = "J" THEN "up" ELSE "down")
GivesIn(e, d)  == GivesOut(Peer(e), d)

InUse == {"joining", "live"}

HasOut(e, states) == \E s \in Slot : st[e][s] \in states /\ GivesOut(e, dir[s])
HasIn(e, states)  == \E s \in Slot : st[e][s] \in states /\ GivesIn(e, dir[s])

Held(e)   == {s \in Slot : st[e][s] # "none"}
Failed(e) == {s \in Slot : st[e][s] = "failed"}

\* d provides a direction e lacks.
Provides(e, d) == \/ GivesOut(e, d) /\ ~HasOut(e, {"live"})
                  \/ GivesIn(e, d)  /\ ~HasIn(e, {"live"})

\* What e writes reaches its peer on some pipe.
Path(e) == \E s \in Slot :
             /\ net[s] = "ok" /\ GivesOut(e, dir[s])
             /\ st[e][s] \in InUse /\ st[Peer(e)][s] \in InUse

(* SUSPENDED is entered when no pipe of a direction is left, a JOINING one   *)
(* included, and left when one of each direction is confirmed.               *)
Complete(e, states) == HasOut(e, states) /\ HasIn(e, states)

(* Every step ends with both ends looking at what they have left; what       *)
(* neither remembers is forgotten.                                            *)
Judge(d) ==
  /\ dir' = [s \in Slot |-> IF \A e \in End : st'[e][s] = "none" THEN "bidi" ELSE d[s]]
  /\ sus' = [e \in End |-> IF sus[e] THEN ~Complete(e, {"live"})' ELSE ~Complete(e, InUse)']

Init ==
  /\ dir = [s \in Slot |-> "bidi"]
  /\ net = [s \in Slot |-> IF s = Boot THEN "ok" ELSE "cut"]
  /\ st = [e \in End |-> [s \in Slot |-> IF s = Boot THEN "live" ELSE "none"]]
  /\ sus = [e \in End |-> FALSE]
  /\ over = FALSE
  /\ faults = 0

-----------------------------------------------------------------------------
Cut(s) == IF net[s] = "ok" THEN "cut" ELSE net[s]

\* Faulty variant: only attachments that still work are counted.
FullLive(e) == Cardinality({s \in Slot : st[e][s] \in InUse}) >= Cap

(* The cap on unretired attachments, failed ones included. *)
Full(e) == Cardinality(Held(e)) >= Cap

\* Faulty variant: an end at the cap refuses also while suspended.
DisplaceableNever(e, d) == {}

\* Faulty variant: any live attachment makes room for any join.
DisplaceableAlways(e, d) ==
  IF Failed(e) # {} THEN Failed(e) ELSE {s \in Slot : st[e][s] = "live"}

(* The attachments one of which an end at the cap retires locally to make    *)
(* room for another of direction d: a failed one, else, if d provides a       *)
(* direction it lacks, a live one; which is oldest is left open.              *)
Displaceable(e, d) ==
  IF ~sus[e] THEN {}
  ELSE IF Failed(e) # {} THEN Failed(e)
  ELSE IF Provides(e, d) THEN {s \in Slot : st[e][s] = "live"}
  ELSE {}

(* s is the next pipe ID, of direction d; J joins with one attempt of each    *)
(* direction at a time.                                                       *)
Take(s, d, out) ==
  /\ net' = [t \in Slot |-> IF t = s THEN "ok" ELSE IF t \in out THEN Cut(t) ELSE net[t]]
  /\ st' = [st EXCEPT !["J"] = [t \in Slot |-> IF t = s THEN "joining"
                                                ELSE IF t \in out THEN "none" ELSE @[t]]]
  /\ UNCHANGED <<over, faults>>
  /\ Judge([dir EXCEPT ![s] = d])

Free == {s \in Slot : \A e \in End : st[e][s] = "none"}

Join(d) ==
  /\ ~over /\ Free # {}
  /\ ~\E t \in Slot : st["J"][t] = "joining" /\ dir[t] = d
  /\ LET s == CHOOSE s \in Free : TRUE
     IN  \/ ~Full("J") /\ Take(s, d, {})
         \/ /\ Full("J") /\ Provides("J", d)
            /\ \E t \in Displaceable("J", d) : Take(s, d, {t})

(* The join reaches A, which attaches, displaces or refuses. *)
Attach(s, out) ==
  /\ net' = [t \in Slot |-> IF t \in out THEN Cut(t) ELSE net[t]]
  /\ st' = [st EXCEPT !["A"] = [t \in Slot |-> IF t = s THEN "live"
                                                ELSE IF t \in out THEN "none" ELSE @[t]]]

Arrive(s) ==
  /\ ~over
  /\ st["J"][s] = "joining" /\ st["A"][s] = "none" /\ net[s] = "ok"
  /\ IF ~Full("A")
     THEN Attach(s, {})
     ELSE IF Displaceable("A", dir[s]) # {}
     THEN \E t \in Displaceable("A", dir[s]) : Attach(s, {t})
     ELSE net' = [net EXCEPT ![s] = "cut"] /\ UNCHANGED st
  /\ UNCHANGED <<over, faults>>
  /\ Judge(dir)

(* J hears of s: a record on it, or the acknowledgement of what it sent. *)
Confirm(s) ==
  /\ ~over
  /\ st["J"][s] = "joining" /\ st["A"][s] = "live" /\ net[s] = "ok" /\ Path("A")
  /\ st' = [st EXCEPT !["J"][s] = "live"]
  /\ UNCHANGED <<net, over, faults>>
  /\ Judge(dir)

-----------------------------------------------------------------------------
(* An attachment fails at one end as a whole, and its carrier is closed. *)
Fail(e, s, n) ==
  /\ st' = [st EXCEPT ![e][s] = "failed"]
  /\ net' = [net EXCEPT ![s] = Cut(s)]
  /\ faults' = faults + n
  /\ UNCHANGED over
  /\ Judge(dir)

CarrierError(e, s) ==
  /\ ~over
  /\ st[e][s] \in InUse /\ net[s] = "cut"
  /\ Fail(e, s, 0)

(* No answer of e reaches its peer, and no join is under way that could      *)
(* carry one: timers are longer than a join takes to arrive.                  *)
UnderWay == \E s \in Slot : st["J"][s] = "joining" /\ st["A"][s] = "none" /\ net[s] = "ok"
Mute(e) == ~Path(e) /\ ~UnderWay

(* Nothing that e sends on s is processed, or no acknowledgement comes back. *)
Unanswered(e, s) ==
  net[s] # "ok" \/ st[Peer(e)][s] \notin InUse \/ Mute(Peer(e))

(* T_fail, or T_dead of the last pipe: what waits on s, a probe at the least, *)
(* is not acknowledged; an end without an inbound pipe does not judge.        *)
Stalled(e, s) ==
  /\ ~over
  /\ st[e][s] = "live" /\ GivesOut(e, dir[s]) /\ HasIn(e, InUse)
  /\ Unanswered(e, s)
  /\ Fail(e, s, 0)

(* The inbound silence of a pipe on which e cannot send. *)
Silent(e, s) ==
  /\ ~over
  /\ st[e][s] = "live" /\ ~GivesOut(e, dir[s])
  /\ net[s] # "ok" \/ st[Peer(e)][s] \notin InUse
  /\ Fail(e, s, 0)

(* A join that is not confirmed within the handshake timeout. *)
JoinTimeout(s) ==
  /\ ~over
  /\ st["J"][s] = "joining"
  /\ net[s] # "ok" \/ (st["A"][s] = "live" /\ Mute("A"))
  /\ Fail("J", s, 0)

(* A timer expires although the peer or the network was only slow. *)
Pause(e, s) ==
  /\ ~over /\ faults < MaxFaults
  /\ st[e][s] \in InUse
  /\ Fail(e, s, 1)

(* PIPE_ABANDON of the peer, on any pipe. *)
Abandoned(e, s) ==
  /\ ~over
  /\ st[e][s] \in InUse /\ st[Peer(e)][s] = "failed" /\ Path(Peer(e))
  /\ Fail(e, s, 0)

(* PIPE_ABANDON was acknowledged, and answered or not in time. *)
Retire(e, s) ==
  /\ ~over
  /\ st[e][s] = "failed" /\ st[Peer(e)][s] \notin InUse
  /\ Path(e) /\ Path(Peer(e))
  /\ st' = [st EXCEPT ![e][s] = "none"]
  /\ net' = [net EXCEPT ![s] = "cut"]
  /\ UNCHANGED <<over, faults>>
  /\ Judge(dir)

-----------------------------------------------------------------------------
Fault(s, how) ==
  /\ ~over /\ faults < MaxFaults
  /\ net[s] = "ok" /\ how \in {"silent", "cut"}
  /\ net' = [net EXCEPT ![s] = how]
  /\ faults' = faults + 1
  /\ UNCHANGED <<dir, st, sus, over>>

(* Either application removes s gracefully: the exchange of PIPE_ABANDON and *)
(* the retirement that follows it are one step (Failover has them apart).    *)
Remove(s) ==
  /\ ~over /\ faults < MaxFaults
  /\ \A e \in End : st[e][s] = "live" /\ Path(e)
  /\ st' = [e \in End |-> [st[e] EXCEPT ![s] = "none"]]
  /\ net' = [net EXCEPT ![s] = "cut"]
  /\ faults' = faults + 1
  /\ UNCHANGED over
  /\ Judge(dir)

(* The grace period runs out: e closes and frees what it keeps; what becomes  *)
(* of the other end, which has the same period, is not followed further.       *)
Expire(e) ==
  /\ ~over /\ sus[e]
  /\ over' = TRUE
  /\ st' = [x \in End |-> [s \in Slot |-> "none"]]
  /\ net' = [s \in Slot |-> "cut"]
  /\ dir' = [s \in Slot |-> "bidi"]
  /\ sus' = [x \in End |-> FALSE]
  /\ UNCHANGED faults

Next ==
  \/ \E d \in Dirs : Join(d)
  \/ \E s \in Slot : Arrive(s) \/ Confirm(s) \/ JoinTimeout(s) \/ Remove(s)
  \/ \E e \in End, s \in Slot :
       CarrierError(e, s) \/ Stalled(e, s) \/ Silent(e, s) \/ Pause(e, s)
         \/ Abandoned(e, s) \/ Retire(e, s)
  \/ \E s \in Slot, how \in {"silent", "cut"} : Fault(s, how)
  \/ \E e \in End : Expire(e)

Spec == Init /\ [][Next]_vars

(* A suspended J keeps joining in the RejoinDirs; what was sent arrives, and  *)
(* timers whose condition lasts expire.  With one-way carriers alone J has to  *)
(* join both directions within a timeout (RESUME.md 4.3), which this untimed   *)
(* model cannot require: RejoinDirs holds "bidi" where Resumes is checked.     *)
Rejoin(d) == sus["J"] /\ Join(d)

FairSpec ==
  /\ Spec
  /\ \A d \in RejoinDirs : WF_vars(Rejoin(d))
  /\ \A s \in Slot : WF_vars(Arrive(s) \/ Confirm(s) \/ JoinTimeout(s))
  /\ \A e \in End, s \in Slot :
       WF_vars(CarrierError(e, s) \/ Stalled(e, s) \/ Silent(e, s)
                 \/ Abandoned(e, s) \/ Retire(e, s))

-----------------------------------------------------------------------------
(* No end remembers more attachments than the cap, whatever is joined,       *)
(* dropped and never abandoned by its peer.                                  *)
CapHolds == \A e \in End : Cardinality(Held(e)) <= Cap

(* Making room for a join never takes the acceptor's last pipe of a          *)
(* direction (MULTIPATH.md 5.4 step 9): what A had before it accepted a join  *)
(* it has after it.                                                           *)
KeepsDirections ==
  (\E s \in Slot : st["A"][s] = "none" /\ st'["A"][s] # "none")
    => /\ HasOut("A", {"live"}) => HasOut("A", {"live"})'
       /\ HasIn("A", {"live"}) => HasIn("A", {"live"})'

JoinCostsNoDirection == [][KeepsDirections]_vars

(* Once faults stop, neither end stays suspended or becomes suspended again,  *)
(* unless a grace period ran out first.                                      *)
Resumes == <>(over \/ [](\A e \in End : ~sus[e]))
=============================================================================
