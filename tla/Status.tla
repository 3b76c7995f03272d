------------------------------- MODULE Status -------------------------------
(***************************************************************************)
(* How M asks F to use its side of each pipe: the request of a join, the    *)
(* PIPE_STATUS frames that replace it, and the takeover of standby pipes    *)
(* (the traces multipath.status and multipath.tier of                      *)
(* tools/build_traces.py).  Both ends ask alike; M asks here and F follows. *)
(*                                                                         *)
(* A PIPE_STATUS may travel on any pipe, so that frames overtake each other *)
(* and joins, and is lost with the pipe that carries it.  A pipe that ended *)
(* does not come back; its ID is not used again.                            *)
(***************************************************************************)
EXTENDS Naturals

CONSTANTS
  Pipe,
  Boot,        \* the bootstrap pipe, which needs no join
  Setting,     \* bound: what the application of M may configure for a pipe: standby, that
               \* M keeps it for standby itself, and request, [standby, priority], of F
  MaxTrouble,  \* bound: changes of a setting, a suspicion counting as two
  Nowhere

Request == [standby : BOOLEAN, priority : Nat]

ASSUME PipeAssumption    == Boot \in Pipe /\ Nowhere \notin Pipe
ASSUME SettingAssumption == Setting \subseteq [standby : BOOLEAN, request : Request]
ASSUME BoundAssumption   == MaxTrouble \in Nat

Default == [standby |-> FALSE, priority |-> 0]

VARIABLES
  \* M
  out,      \* outbound direction: "none", "joining", "active", "suspect", "gone"
  prob,     \* pipes in probation
  conf,     \* what is configured for each pipe
  over,     \* standby pipes whose takeover M announced
  said,     \* the request M last stated, in PIPE_JOIN or PIPE_STATUS
  seq,      \* sequence number of the last PIPE_STATUS
  via,      \* pipe that carries it, Nowhere while it waits to be sent
  \* F
  att,      \* attachment, from the join on: "none", "live", "gone"
  seen,     \* the request in force, or in the join under way, and its sequence number
  \* both
  flight,   \* PIPE_STATUS frames under way
  trouble

mvars == <<out, prob, conf, over, said, seq, via>>
fvars == <<att, seen>>
vars  == <<mvars, fvars, flight, trouble>>

Frame == [pipe : Pipe, n : Nat, request : Request, on : Pipe]

\* One type invariant: the shape of every variable.
TypeOK ==
  /\ out \in [Pipe -> {"none", "joining", "active", "suspect", "gone"}]
  /\ prob \subseteq Pipe /\ over \subseteq Pipe
  /\ conf \in [Pipe -> [standby : BOOLEAN, request : Request]]
  /\ said \in [Pipe -> Request] /\ seq \in [Pipe -> Nat]
  /\ via \in [Pipe -> Pipe \union {Nowhere}]
  /\ att \in [Pipe -> {"none", "live", "gone"}]
  /\ seen \in [Pipe -> [n : Nat, request : Request]]
  /\ flight \subseteq Frame
  /\ trouble \in 0..MaxTrouble

Init ==
  /\ out = [p \in Pipe |-> IF p = Boot THEN "active" ELSE "none"]
  /\ att = [p \in Pipe |-> IF p = Boot THEN "live" ELSE "none"]
  /\ prob = {} /\ over = {}
  /\ conf = [p \in Pipe |-> [standby |-> FALSE, request |-> Default]]
  /\ said = [p \in Pipe |-> Default] /\ seq = [p \in Pipe |-> 0]
  /\ via = [p \in Pipe |-> Nowhere]
  /\ seen = [p \in Pipe |-> [n |-> 0, request |-> Default]]
  /\ flight = {}
  /\ trouble = 0

-----------------------------------------------------------------------------
(* What M uses, and what it asks for.                                      *)

Active == {p \in Pipe : out[p] = "active"}
Standby == {p \in Pipe : conf[p].standby}

\* A pipe in probation counts only when no other one does.
Usable == IF Active \ prob # {} THEN Active \ prob ELSE Active

\* A takeover is announced as the configured request without its standby.
Wanted(p) == IF p \in over THEN [conf[p].request EXCEPT !.standby = FALSE]
                           ELSE conf[p].request

\* A pipe that F has attached, as far as M knows.
Live(p) == out[p] \in {"active", "suspect"}

\* Faulty variant: a takeover ends with the pipe only.
TakenOverKeeps(taking) == {p \in over \union taking : Live(p)'}

\* Takeovers in force after a step: one ends as soon as a non-standby pipe is usable.
TakenOver(taking) == {p \in over \union taking : Live(p)' /\ Usable' \subseteq Standby'}

\* Faulty variant: a request is sent when it changes, if it can be sent then.
RestatedChanges == {p \in Pipe : Live(p)' /\ Wanted(p)' # Wanted(p)}

\* Requests to send after a step: those that are no longer the one stated.  None while the
\* join is under way, since F ignores what overtakes the join.
Restated == {p \in Pipe : Live(p)' /\ Wanted(p)' # said[p]}

(* Every step of M ends here.  A new request takes the next sequence number.  The *)
(* last one is sent again when the pipe lost took it with it, unless a PIPE_ACK    *)
(* covers it, as it may once it is in force.  A pipe that is gone leaves nothing   *)
(* behind.                                                                         *)
Settle(taking, lost) ==
  /\ over' = TakenOver(taking)
  /\ \E covered \in SUBSET {p \in Pipe : seen[p].n = seq[p]} :
       LET again == {p \in Pipe \ covered : via[p] \in lost}
           gone  == {p \in Pipe : out'[p] = "gone"}
       IN  /\ said' = [p \in Pipe |-> IF p \in Restated \union gone THEN Wanted(p)' ELSE said[p]]
           /\ seq'  = [p \in Pipe |-> IF p \in Restated THEN seq[p] + 1
                                       ELSE IF p \in gone THEN 0 ELSE seq[p]]
           /\ via'  = [p \in Pipe |-> IF p \in Restated \union again \union gone THEN Nowhere
                                       ELSE via[p]]

-----------------------------------------------------------------------------
(* M.                                                                      *)

\* The application changes what it asks for, or whether its own direction is standby.
SetPipeStatus(p, setting) ==
  /\ out[p] \in {"joining", "active", "suspect"} /\ conf[p] # setting
  /\ trouble < MaxTrouble /\ trouble' = trouble + 1
  /\ conf' = [conf EXCEPT ![p] = setting]
  /\ UNCHANGED <<out, prob>>
  /\ Settle({}, {})
  /\ UNCHANGED <<att, seen, flight>>

\* M joins: its first request is in the PIPE_JOIN.
Join(p, setting) ==
  /\ out[p] = "none" /\ att[p] = "none"
  /\ out' = [out EXCEPT ![p] = "joining"]
  /\ conf' = [conf EXCEPT ![p] = setting]
  /\ said' = [said EXCEPT ![p] = setting.request]
  /\ seen' = [seen EXCEPT ![p] = [n |-> 0, request |-> setting.request]]
  /\ UNCHANGED <<prob, over, seq, via, att, flight, trouble>>

\* The join is confirmed: the pipe is in probation, and what changed meanwhile is sent.
Confirm(p) ==
  /\ out[p] = "joining" /\ att[p] = "live"
  /\ out' = [out EXCEPT ![p] = "active"]
  /\ prob' = prob \union {p}
  /\ UNCHANGED conf
  /\ Settle({}, {})
  /\ UNCHANGED <<att, seen, flight, trouble>>

\* M accepts a join of F.  A request that is not the default is sent with its first record.
Accept(p, setting) ==
  /\ out[p] = "none" /\ att[p] = "live"
  /\ out' = [out EXCEPT ![p] = "active"]
  /\ prob' = prob \union {p}
  /\ conf' = [conf EXCEPT ![p] = setting]
  /\ Settle({}, {})
  /\ UNCHANGED <<att, seen, flight, trouble>>

ProbationEnds(p) ==
  /\ p \in prob /\ out[p] = "active"
  /\ prob' = prob \ {p}
  /\ UNCHANGED <<out, conf>>
  /\ Settle({}, {})
  /\ UNCHANGED <<att, seen, flight, trouble>>

\* No non-standby pipe is usable: M sends on a standby one, and announces it if it asks F
\* to keep that for standby.
TakeOver(p) ==
  /\ p \in Usable \ over /\ Usable \subseteq Standby /\ conf[p].request.standby
  /\ UNCHANGED <<out, prob, conf>>
  /\ Settle({p}, {})
  /\ UNCHANGED <<att, seen, flight, trouble>>

\* A pipe is suspected: what it carries is sent again elsewhere.  It returns through
\* probation, or fails.
Suspect(p) ==
  /\ out[p] = "active" /\ trouble + 2 <= MaxTrouble
  /\ out' = [out EXCEPT ![p] = "suspect"]
  /\ prob' = prob \ {p}
  /\ trouble' = trouble + 2
  /\ UNCHANGED conf
  /\ Settle({}, {p})
  /\ UNCHANGED <<att, seen, flight>>

Return(p) ==
  /\ out[p] = "suspect" /\ att[p] # "gone"
  /\ out' = [out EXCEPT ![p] = "active"]
  /\ prob' = prob \union {p}
  /\ UNCHANGED conf
  /\ Settle({}, {})
  /\ UNCHANGED <<att, seen, flight, trouble>>

\* The carrier fails, or is closed by F, or the join is not confirmed in time.
Fail(p) ==
  /\ out[p] \in {"joining", "active", "suspect"}
  /\ out' = [out EXCEPT ![p] = "gone"]
  /\ prob' = prob \ {p}
  /\ conf' = [conf EXCEPT ![p] = [standby |-> FALSE, request |-> Default]]
  /\ Settle({}, {p})
  /\ UNCHANGED <<att, seen, flight, trouble>>

\* The last request of p is sent on a pipe that may carry control frames, a suspect one
\* only as a last resort.
Send(p, q) ==
  /\ Live(p) /\ seq[p] > 0 /\ via[p] = Nowhere
  /\ \/ out[q] \in {"joining", "active"}
     \/ out[q] = "suspect" /\ \A x \in Pipe : out[x] \notin {"joining", "active"}
  /\ via' = [via EXCEPT ![p] = q]
  /\ flight' = flight \union {[pipe |-> p, n |-> seq[p], request |-> said[p], on |-> q]}
  /\ UNCHANGED <<out, prob, conf, over, said, seq, fvars, trouble>>

-----------------------------------------------------------------------------
(* F.                                                                      *)

\* F joins, and has the attachment from then on.
JoinByPeer(p) ==
  /\ out[p] = "none" /\ att[p] = "none"
  /\ att' = [att EXCEPT ![p] = "live"]
  /\ UNCHANGED <<mvars, seen, flight, trouble>>

\* F attaches a join of M, with the request in it.
AcceptAtPeer(p) ==
  /\ out[p] = "joining" /\ att[p] = "none"
  /\ att' = [att EXCEPT ![p] = "live"]
  /\ UNCHANGED <<mvars, seen, flight, trouble>>

\* F has lost the attachment, or sees that M did, and what the carrier held; M will see it.
FailAtPeer(p) ==
  /\ att[p] = "live"
  /\ att' = [att EXCEPT ![p] = "gone"]
  /\ seen' = [seen EXCEPT ![p] = [n |-> 0, request |-> Default]]
  /\ flight' = {f \in flight : f.on # p}
  /\ UNCHANGED <<mvars, trouble>>

\* Faulty variant: the sequence number is not compared.
RecvAny(f) ==
  /\ att[f.on] = "live"
  /\ \A g \in flight : g.on = f.on /\ g.pipe = f.pipe => f.n <= g.n
  /\ flight' = flight \ {f}
  /\ seen' = IF att[f.pipe] = "live"
             THEN [seen EXCEPT ![f.pipe] = [n |-> f.n, request |-> f.request]] ELSE seen
  /\ UNCHANGED <<mvars, att, trouble>>

\* A PIPE_STATUS arrives, in order on its carrier.  It is in force if F has the attachment
\* and nothing newer arrived.
Recv(f) ==
  /\ att[f.on] = "live"
  /\ \A g \in flight : g.on = f.on /\ g.pipe = f.pipe => f.n <= g.n
  /\ flight' = flight \ {f}
  /\ seen' = IF att[f.pipe] = "live" /\ f.n > seen[f.pipe].n
             THEN [seen EXCEPT ![f.pipe] = [n |-> f.n, request |-> f.request]] ELSE seen
  /\ UNCHANGED <<mvars, att, trouble>>

-----------------------------------------------------------------------------
Next ==
  \/ \E p \in Pipe :
       \/ \E x \in Setting : SetPipeStatus(p, x) \/ Join(p, x) \/ Accept(p, x)
       \/ Confirm(p) \/ ProbationEnds(p) \/ TakeOver(p) \/ Suspect(p) \/ Return(p) \/ Fail(p)
       \/ (\E q \in Pipe : Send(p, q))
       \/ JoinByPeer(p) \/ AcceptAtPeer(p) \/ FailAtPeer(p)
  \/ \E f \in flight : Recv(f)

Spec == Init /\ [][Next]_vars

\* Fairness: M sends what it owes, a carrier that neither end doubts delivers, a join is
\* confirmed or given up, a suspicion and a probation end, and M sees that F closed a
\* carrier.  Nothing has to join, fail, change or take over.
Fairness ==
  \A p \in Pipe :
    /\ WF_vars(\E q \in Pipe : Send(p, q))
    /\ WF_vars(out[p] # "suspect" /\ \E f \in flight : f.on = p /\ Recv(f))
    /\ WF_vars(Confirm(p) \/ (out[p] = "joining" /\ Fail(p)))
    /\ WF_vars(Return(p) \/ (out[p] = "suspect" /\ Fail(p)))
    /\ WF_vars(ProbationEnds(p))
    /\ WF_vars(att[p] = "gone" /\ Fail(p))

FairSpec == Spec /\ Fairness

-----------------------------------------------------------------------------
(* Properties.                                                             *)

\* When F has seen the last of M's frames about a pipe, it uses it as M wants now, however
\* requests, takeovers and restorations crossed; and no number runs ahead of M's.
Agreed ==
  \A p \in Pipe : att[p] = "live" /\ Live(p) =>
    /\ seen[p].n <= seq[p]
    /\ seen[p].n = seq[p] => seen[p].request = Wanted(p)

\* Every request is followed in the end, though the pipes that carry it fail and frames
\* overtake each other and the join.  Requests change finitely often.
Follows == \A p \in Pipe : []<>(att[p] = "live" /\ out[p] = "active" => seen[p].request = Wanted(p))

\* A takeover is temporary: once M has a usable pipe that is not standby, F has every
\* standby pipe back as it was configured.
Restored ==
  \A p \in Pipe :
    []<>(att[p] = "live" /\ out[p] = "active" /\ ~(Usable \subseteq Standby)
          => seen[p].request = conf[p].request)
=============================================================================
